---- MODULE Spec2Model ----
(***************************************************************************)
(* Delegation and streaming orchestration engine of kitn-ai/registry.      *)
(*                                                                         *)
(* SpecDeleg  : executeTask's legality checks and the delegation contexts  *)
(*              it installs (execute-task.ts, delegation-context.ts).      *)
(* SpecStream : one streaming request: request registry, createSSEStream,  *)
(*              the serialized stream writer, the event-bus bridge, the    *)
(*              orchestrator SSE handler and streamAgentResponse.          *)
(***************************************************************************)
EXTENDS Integers, Sequences, FiniteSets, TLC

\* ------------------------------------------------------------------ bounds
\* largest configured maxDelegationDepth explored (the program default is 3)
MaxDepth == 3

\* ------------------------------------------------------- agent registry
\* Names a delegation may target.  "g" is not registered.
Names == {"a", "b", "c", "o", "n", "g"}

\* AgentRegistry contents used by the model: "a" carries a guard, "o" is
\* registered with isOrchestrator, "n" is registered without tools.
AgentRegistrations ==
  [x \in Names |->
     CASE x = "a" -> [registered |-> TRUE,  isOrchestrator |-> FALSE, tools |-> TRUE,  guard |-> TRUE]
       [] x = "b" -> [registered |-> TRUE,  isOrchestrator |-> FALSE, tools |-> TRUE,  guard |-> FALSE]
       [] x = "c" -> [registered |-> TRUE,  isOrchestrator |-> FALSE, tools |-> TRUE,  guard |-> FALSE]
       [] x = "o" -> [registered |-> TRUE,  isOrchestrator |-> TRUE,  tools |-> FALSE, guard |-> FALSE]
       [] x = "n" -> [registered |-> TRUE,  isOrchestrator |-> FALSE, tools |-> FALSE, guard |-> FALSE]
       [] OTHER   -> [registered |-> FALSE, isOrchestrator |-> FALSE, tools |-> FALSE, guard |-> FALSE]]

\* mutant of getOrchestratorNames: the isOrchestrator flag is never collected
GetOrchestratorNamesNone(r) == {}

\* AgentRegistry.getOrchestratorNames
getOrchestratorNames(r) ==
  {x \in DOMAIN r : r[x].registered /\ r[x].isOrchestrator}

\* -------------------------------------------------- delegation context
\* the context agents.routes.ts installs at the root of a request: it
\* carries no abort signal
RootCtx == [chain |-> <<>>, depth |-> 0, abortSignal |-> "none"]

\* buildSseHandler: delCtx = { ...parentCtx, abortSignal } with the signal
\* of the controller registerRequest created for the request
DelCtx(parentCtx, signal) == [parentCtx EXCEPT !.abortSignal = signal]

\* the contexts a request handler can run under: the JSON handler keeps
\* the routes' context, the SSE handler installs delCtx
RootContexts == {RootCtx, DelCtx(RootCtx, "signal")}

\* mutant of the depth check: off by one (> instead of >=)
DepthExceededOffByOne(depth, maxD) == depth > maxD

\* executeTask: depth >= ctx.maxDelegationDepth
DepthExceeded(depth, maxD) == depth >= maxD

\* executeTask: chain.length > 0 && chain[chain.length - 1] === agent
SelfDelegation(chain, agent) ==
  Len(chain) > 0 /\ chain[Len(chain)] = agent

\* mutant of the cycle check: only the immediate caller is compared
ChainIncludesLastOnly(chain, agent) ==
  Len(chain) > 0 /\ chain[Len(chain)] = agent

\* executeTask: chain.includes(agent)
ChainIncludes(chain, agent) ==
  \E i \in 1..Len(chain) : chain[i] = agent

\* mutant of childCtx: the abort signal is not handed down
ChildCtxNoSignal(parent, agent) ==
  [chain |-> Append(parent.chain, agent), depth |-> parent.depth + 1,
   abortSignal |-> "none"]

\* executeTask: childCtx = { chain: [...chain, agent], depth: depth + 1,
\* events: parentCtx?.events, abortSignal: parentCtx?.abortSignal }
ChildCtx(parent, agent) ==
  [chain |-> Append(parent.chain, agent), depth |-> parent.depth + 1,
   abortSignal |-> parent.abortSignal]

\* The legality checks of executeTask in source order; "none" when the
\* delegation is legal, otherwise the kind of error result returned.
LegalityError(r, maxD, ctx, agent) ==
  IF ~r[agent].registered THEN "unknown"
  ELSE IF agent \in getOrchestratorNames(r) THEN "orchestrator"
  ELSE IF ~r[agent].tools THEN "notools"
  ELSE IF DepthExceeded(ctx.depth, maxD) THEN "depth"
  ELSE IF SelfDelegation(ctx.chain, agent) THEN "self"
  ELSE IF ChainIncludes(ctx.chain, agent) THEN "cycle"
  ELSE "none"

LegalityErrors == {"unknown", "orchestrator", "notools", "depth", "self", "cycle"}

\* ------------------------------------------------------------ variables
VARIABLES
  reg,                 \* ctx.agents: the agent registry
  maxDelegationDepth,  \* ctx.maxDelegationDepth
  stack,               \* active executeTask calls, innermost last
  last,                \* outcome of the executeTask call that ended last
  root                 \* delegation context the request handler runs under

\* state of one streaming request (SpecStream)
VARIABLES
  kind,            \* "none" | "orch" | "approved" | "agent": which handler serves it
  autonomous,      \* reqAutonomous ?? defaultAutonomous
  planMode,        \* body.planMode
  pc,              \* position of the handler
  activeRequests,  \* request-registry: conversation ids holding a controller
  aborted,         \* controller.signal.aborted
  closeOnAbort,    \* createSSEStream attached its abort listener
  stream,          \* "none" | "open" | "closed": the ReadableStream controller
  subscribed,      \* bridgeBusToStream's handler is subscribed to the bus
  chainQ,          \* createStreamWriter: writes queued on the promise chain
  issued,          \* number of write calls issued so far
  nextId,          \* createStreamWriter's id counter (streamAgentResponse: id)
  written,         \* events handed to writer.writeSSE, in order
  delivered,       \* events enqueued on the open stream: what the client reads
  awaitSeq,        \* the write the handler is awaiting (0: none)
  planStep,        \* generateText step of the planning call
  attempt,         \* withResilience attempt of the planning call
  stepTask,        \* the current planning step declared createTask calls
  tasks,           \* tasks collected from createTask calls / approvedPlan
  routeResults,    \* number of routeToAgent tool results in planResult.steps
  routeUsages,     \* JSON request: how many of them carry the usage of a run
  routeItems,      \* a routeToAgent result carries clarification items
  slot,            \* executeTask calls: 0 the route tool, 1.. the tasks
  chunks,          \* stream chunks consumed so far
  err,             \* error caught by the handler: "none" | "abort" | "error"
  cancelStage      \* when the cancellation took effect (history)

\* state of one JSON request (SpecJson), beside the request state above
VARIABLES
  response         \* body of the JSON response: "none" | "synthesized" | "direct"

\* state of one withResilience call (SpecRes)
VARIABLES
  maxRetries,      \* config.maxRetries
  onFallback,      \* config.onFallback: "none" | "declines" | "substitute" | "throws"
  resPc,           \* "idle" | "call" | "sleep" | "fallback" | "fbcall" | "returned" | "thrown"
  resAttempt,      \* the loop variable `attempt`
  calls,           \* invocations of fn so far: the model passed and the result
  lastError,       \* lastError
  sleeps,          \* backoff sleeps started so far
  resAborted,      \* abortSignal.aborted
  abortedInSleep,  \* the signal fired while a backoff sleep was pending (history)
  thrown           \* what withResilience rejected with

\* isRetryableError applied to one value (SpecClassify)
VARIABLES
  thrownValue,     \* the value passed to isRetryableError
  verdict          \* "unset" | "retryable" | "final"

\* mergeUsage applied to one argument list (SpecUsage)
VARIABLES
  usages,          \* the arguments of mergeUsage
  merged,          \* mergeUsage(...usages)
  remerged,        \* the same records merged in another order and grouping
  usePc            \* "in" | "out"

\* conversation store, its lock and the requests using it (SpecConv)
VARIABLES
  storeKind,       \* "memory" | "file": which createConversationStore
  store,           \* per conversation id: whether it is stored, its messages
  lockQ,           \* file store: requests whose operation is chained on `lock`
  lockHeld,        \* file store: the first chained operation has started
  msgSeq,          \* number of messages ever appended by callers (history)
  covered,         \* contents of the messages a written summary stands for (history)
  compaction,      \* ctx.config.compaction: "none" | "off" | "on"
  threshold,       \* ctx.config.compaction.threshold, or Unset
  preserveRecent,  \* ctx.config.compaction.preserveRecent, or Unset
  req              \* per request: what it runs and where it is

\* one call of a file store's list (SpecList)
VARIABLES
  listImpl,        \* "listDir": the scoped store; "list": the unscoped store
  dirFiles,        \* what each *.json file of the directory holds, in readdir order
  listPos,         \* files the loop has handled
  summaries,       \* the summaries pushed so far
  listOut          \* "running" | "returned" | "threw"

\* the delegation store as concurrent tasks see it (SpecAls)
VARIABLES
  current,         \* the store of the execution context that ran last
  flow             \* per task: where its executeTask call is, what it has seen

\* the request registry shared by concurrent streaming requests (SpecRegistry)
VARIABLES
  controllers,     \* activeRequests: per conversation id, whose controller it holds
  handlers         \* per request: where its handler is, the state of its token

cfgVars   == <<reg, maxDelegationDepth>>
delegVars == <<stack, last, root>>
reqVars   == <<kind, autonomous, planMode>>
regVars   == <<activeRequests, aborted, closeOnAbort, cancelStage>>
outVars   == <<chainQ, issued, nextId, written, delivered, awaitSeq>>
planVars  == <<planStep, attempt, stepTask, tasks, routeResults, routeUsages, routeItems>>
streamVars == <<reqVars, regVars, outVars, planVars, pc, stream, subscribed, slot, chunks, err>>
jsonVars  == <<response>>
resVars   == <<maxRetries, onFallback, resPc, resAttempt, calls, lastError, sleeps,
               resAborted, abortedInSleep, thrown>>
clsVars   == <<thrownValue, verdict>>
usageVars == <<usages, merged, remerged, usePc>>
convVars  == <<storeKind, store, lockQ, lockHeld, msgSeq, covered,
               compaction, threshold, preserveRecent, req>>
listVars  == <<listImpl, dirFiles, listPos, summaries, listOut>>
alsVars   == <<current, flow>>
registryVars == <<controllers, handlers>>
restVars  == <<usageVars, convVars, listVars, alsVars, registryVars>>
vars      == <<cfgVars, delegVars, streamVars, jsonVars, resVars, clsVars, restVars>>

\* the request-side state before any request has arrived
StreamIdle ==
  /\ kind = "none" /\ autonomous = TRUE /\ planMode = FALSE
  /\ pc = "idle"
  /\ activeRequests = {} /\ aborted = FALSE /\ closeOnAbort = FALSE
  /\ cancelStage = "none"
  /\ stream = "none" /\ subscribed = FALSE
  /\ chainQ = <<>> /\ issued = 0 /\ nextId = 0
  /\ written = <<>> /\ delivered = <<>> /\ awaitSeq = 0
  /\ planStep = 0 /\ attempt = 0 /\ stepTask = FALSE
  /\ tasks = <<>> /\ routeResults = 0 /\ routeUsages = 0 /\ routeItems = FALSE
  /\ slot = <<>>
  /\ chunks = 0
  /\ err = "none"

\* no JSON response has been produced
JsonIdle == response = "none"

\* a thrown value: whether it is an Error, its name, its numeric status /
\* statusCode property (0: none) and the words of its message
Err(isError, name, status, msg) ==
  [isError |-> isError, name |-> name, status |-> status, msg |-> msg]

NoError == Err(FALSE, "-", 0, <<>>)

\* no withResilience call has started
ResIdle ==
  /\ maxRetries = 0 /\ onFallback = "none"
  /\ resPc = "idle" /\ resAttempt = 0
  /\ calls = <<>> /\ lastError = NoError /\ sleeps = 0
  /\ resAborted = FALSE /\ abortedInSleep = FALSE
  /\ thrown = NoError

\* isRetryableError has not been applied
ClsIdle == thrownValue = NoError /\ verdict = "unset"

\* the absent cost of a UsageInfo (`cost: null`)
NullCost == -1

NoUsage ==
  [inputTokens |-> 0, outputTokens |-> 0, totalTokens |-> 0,
   cost |-> NullCost, durationMs |-> 0]

\* mergeUsage has not been applied
UsageIdle ==
  usages = <<>> /\ merged = NoUsage /\ remerged = NoUsage /\ usePc = "in"

\* an option left out of the configuration or of a request body
Unset == -1

ConvIds == {"A", "B"}

\* the requests in flight, numbered in their order of arrival
Requests == {1, 2}

Absent == [present |-> FALSE, messages |-> <<>>]

IdleReq ==
  [kind |-> "idle", id |-> "A", pc |-> "idle", p |-> Unset, sub |-> FALSE,
   snap |-> <<>>, keep |-> <<>>, summarized |-> 0, calls |-> 0, dirty |-> FALSE,
   n0 |-> 0, hist |-> <<>>, mine |-> 0, ret |-> <<>>, out |-> "none"]

\* an empty memory store, no compaction configured, no request
ConvIdle ==
  /\ storeKind = "memory"
  /\ store = [id \in ConvIds |-> Absent]
  /\ lockQ = <<>> /\ lockHeld = FALSE
  /\ msgSeq = 0 /\ covered = {}
  /\ compaction = "none" /\ threshold = Unset /\ preserveRecent = Unset
  /\ req = [r \in Requests |-> IdleReq]

\* list has not been called on an empty directory
ListIdle ==
  /\ listImpl = "listDir" /\ dirFiles = <<>> /\ listPos = 0
  /\ summaries = <<>> /\ listOut = "running"

\* tasks of two requests: t1 and t2 run in parallel for one request, u1
\* for another
Flows == {"t1", "t2", "u1"}

NewFlow ==
  [pc |-> "new", parent |-> RootCtx, child |-> RootCtx, seenIn |-> <<>>,
   seenOut |-> <<>>]

\* no task has started
AlsIdle == current = RootCtx /\ flow = [f \in Flows |-> NewFlow]

\* concurrent streaming requests and the conversation ids they name
StreamRequests == {"r1", "r2", "r3"}
StreamConvIds == {"x", "y"}

\* a request that has not arrived: signal "none" | "live" | "aborted"; by:
\* what aborted the signal ("cancel": the cancel endpoint, "disconnect": its
\* own client, "superseded": a later registration under its id, "foreign":
\* the client of another request); conn: its client is connected
NewHandler ==
  [pc |-> "new", id |-> "-", signal |-> "none", by |-> "none", conn |-> FALSE]

\* the registry is empty, no request has arrived
RegistryIdle ==
  /\ controllers = [id \in StreamConvIds |-> "none"]
  /\ handlers = [r \in StreamRequests |-> NewHandler]

RestIdle ==
  /\ UsageIdle
  /\ ConvIdle
  /\ ListIdle
  /\ AlsIdle
  /\ RegistryIdle

\* a bus event of executeTask: its type, the error flag of its payload and
\* the length of the summary or error text the payload embeds (0: none)
BusEv(name, error) == [name |-> name, error |-> error, text |-> 0]

\* a bus event whose payload embeds a text of len characters
TextEv(name, error, len) == [name |-> name, error |-> error, text |-> len]

\* DEFAULTS.SUMMARY_LENGTH_LIMIT
SUMMARY_LENGTH_LIMIT == 200

\* lengths of the texts an agent or a guard can produce (response, error
\* message, rejection reason); NoReason: guardResult.reason is undefined
NoReason == -1
TextLengths == {3, SUMMARY_LENGTH_LIMIT, SUMMARY_LENGTH_LIMIT + 50}

\* length of text.slice(0, limit) for a text of len characters
SliceLen(len, limit) == IF len < limit THEN len ELSE limit

\* length of `Blocked: ${guardResult.reason ?? "guard rejected"}`
BlockedSummaryLen(reason) == 9 + (IF reason = NoReason THEN 14 ELSE reason)

\* length of `Error: ${message.slice(0, DEFAULTS.SUMMARY_LENGTH_LIMIT)}`
ErrorSummaryLen(message) == 7 + SliceLen(message, SUMMARY_LENGTH_LIMIT)

NoOutcome ==
  [agent |-> "-", ctx |-> RootCtx, state |-> "none", msg |-> "-",
   events |-> <<>>, ran |-> FALSE, guard |-> "none"]

\* promise outcome of one executeTask call made from context c, with the
\* bus events the call emitted, whether it started the agent run, and
\* what its guard answered ("none": no guard was asked)
Outcome(agent, c, state, msg, events, ran) ==
  [agent |-> agent, ctx |-> c, state |-> state, msg |-> msg,
   events |-> events, ran |-> ran, guard |-> "none"]

\* delegationStore.getStore() as seen by the code that issues the next
\* delegation: the root context, or the context of the innermost running agent
CurrentCtx ==
  IF stack = <<>> THEN root ELSE stack[Len(stack)].child

\* a new delegation can only be issued by the root or by a running agent
CanDelegate ==
  IF stack = <<>> THEN TRUE ELSE stack[Len(stack)].pc = "run"

Pop == SubSeq(stack, 1, Len(stack) - 1)

SetTop(f) == [stack EXCEPT ![Len(stack)] = f]

\* executeTask between the skill loop and its next await: skill:inject when
\* a query-phase skill was found, delegate:start, then either the
\* guard-check status (the guard is awaited next) or agent:start and the
\* processing status (the agent run is awaited next)
BeforeAwait(f, inject) ==
  LET guarded == reg[f.agent].guard
      evs == (IF inject THEN <<BusEv("skill:inject", FALSE)>> ELSE <<>>)
               \o <<BusEv("delegate:start", FALSE)>>
               \o (IF guarded THEN <<BusEv("status", FALSE)>>
                   ELSE <<BusEv("agent:start", FALSE), BusEv("status", FALSE)>>)
  IN [f EXCEPT !.events = f.events \o evs,
               !.pc = IF guarded THEN "guard" ELSE "run"]

\* executeTask up to its first await: the legality checks, then either an
\* error result or the call continues with the skill lookup, the guard or
\* the agent run.
ExecuteTask(agent, withSkills) ==
  /\ CanDelegate
  /\ LET c == CurrentCtx
         e == LegalityError(reg, maxDelegationDepth, c, agent)
         f == [agent |-> agent, parent |-> c, child |-> ChildCtx(c, agent),
               pc |-> "skills", events |-> <<>>, guard |-> "none"]
     IN IF e # "none"
        THEN /\ last' = Outcome(agent, c, "resolved", e, <<>>, FALSE)
             /\ stack' = stack
        ELSE /\ stack' = Append(stack, IF withSkills THEN f ELSE BeforeAwait(f, FALSE))
             /\ last' = last
  /\ UNCHANGED <<cfgVars, root, streamVars, jsonVars, resVars, clsVars, restVars>>

\* await ctx.storage.skills.getSkill(skillName) returns; inject: the skill
\* has phase "query" or "both"
SkillLookupOk(inject) ==
  /\ stack # <<>>
  /\ LET f == stack[Len(stack)]
     IN /\ f.pc = "skills"
        /\ stack' = SetTop(BeforeAwait(f, inject))
  /\ UNCHANGED <<cfgVars, last, root, streamVars, jsonVars, resVars, clsVars, restVars>>

\* await ctx.storage.skills.getSkill(skillName) throws: outside any try
SkillLookupThrows ==
  /\ stack # <<>>
  /\ LET f == stack[Len(stack)]
     IN /\ f.pc = "skills"
        /\ stack' = Pop
        /\ last' = Outcome(f.agent, f.parent, "rejected", "skill store failed",
                           f.events, FALSE)
  /\ UNCHANGED <<cfgVars, root, streamVars, jsonVars, resVars, clsVars, restVars>>

\* mutant of the guard test: the result of the guard is ignored
GuardAllowsAlways(guardResult) == TRUE

\* executeTask: guardResult.allowed
GuardAllows(guardResult) == guardResult.allowed

\* await registration.guard(query, agent) returns { allowed, reason }
GuardReturns(allowed, reason) ==
  /\ stack # <<>>
  /\ LET f == stack[Len(stack)]
     IN /\ f.pc = "guard"
        /\ IF GuardAllows([allowed |-> allowed])
           THEN /\ stack' = SetTop([f EXCEPT
                       !.pc = "run",
                       !.guard = IF allowed THEN "allowed" ELSE "denied",
                       !.events = f.events \o <<BusEv("agent:start", FALSE),
                                                BusEv("status", FALSE)>>])
                /\ last' = last
           ELSE /\ stack' = Pop
                /\ last' = [Outcome(f.agent, f.parent, "resolved", "guard blocked",
                                    f.events \o <<TextEv("delegate:end", TRUE,
                                                         BlockedSummaryLen(reason))>>,
                                    FALSE)
                              EXCEPT !.guard = "denied"]
  /\ UNCHANGED <<cfgVars, root, streamVars, jsonVars, resVars, clsVars, restVars>>

\* await registration.guard(query, agent) throws: outside any try
GuardThrows ==
  /\ stack # <<>>
  /\ LET f == stack[Len(stack)]
     IN /\ f.pc = "guard"
        /\ stack' = Pop
        /\ last' = Outcome(f.agent, f.parent, "rejected", "guard failed",
                           f.events, FALSE)
  /\ UNCHANGED <<cfgVars, root, streamVars, jsonVars, resVars, clsVars, restVars>>

\* delegationStore.run(childCtx, () => runAgent(...)) settles: try / catch;
\* len: the length of result.response, or of the message of the error
AgentReturns(ok, len) ==
  /\ stack # <<>>
  /\ LET f == stack[Len(stack)]
     IN /\ f.pc = "run"
        /\ stack' = Pop
        /\ last' = [Outcome(f.agent, f.parent, "resolved",
                            IF ok THEN "ok" ELSE "agent execution failed",
                            f.events \o
                              (IF ok
                               THEN <<BusEv("agent:end", FALSE),
                                      TextEv("delegate:end", FALSE,
                                             SliceLen(len, SUMMARY_LENGTH_LIMIT))>>
                               ELSE <<TextEv("agent:end", TRUE,
                                             SliceLen(len, SUMMARY_LENGTH_LIMIT)),
                                      TextEv("delegate:end", TRUE, ErrorSummaryLen(len))>>),
                            TRUE)
                      EXCEPT !.guard = f.guard]
  /\ UNCHANGED <<cfgVars, root, streamVars, jsonVars, resVars, clsVars, restVars>>

InitDeleg ==
  /\ reg = AgentRegistrations
  /\ maxDelegationDepth \in 0..MaxDepth
  /\ root \in RootContexts
  /\ stack = <<>>
  /\ last = NoOutcome
  /\ StreamIdle
  /\ JsonIdle
  /\ ResIdle
  /\ ClsIdle
  /\ RestIdle

NextDeleg ==
  \/ \E agent \in Names, withSkills \in BOOLEAN : ExecuteTask(agent, withSkills)
  \/ \E inject \in BOOLEAN : SkillLookupOk(inject)
  \/ SkillLookupThrows
  \/ \E allowed \in BOOLEAN, reason \in TextLengths \cup {NoReason} :
       GuardReturns(allowed, reason)
  \/ GuardThrows
  \/ \E ok \in BOOLEAN, len \in TextLengths : AgentReturns(ok, len)

SpecDeleg == InitDeleg /\ [][NextDeleg]_vars

\* ================================================================ stream
\* ------------------------------------------------------------------ bounds
\* most tasks one request declares (createTask calls or approvedPlan entries)
MaxTasks == 2
\* ctx.defaultMaxSteps explored (the program default is 5)
MaxSteps == 2
\* config.resilience.maxRetries explored (the program default is 3)
MaxRetries == 1
\* most chunks an upstream stream yields
MaxChunks == 1

\* DEFAULTS.MAX_DELEGATION_DEPTH
DefaultMaxDelegationDepth == 3

\* the conversation id of the request
ConvId == "conv1"

\* SSE_EVENTS.DONE, SSE_EVENTS.CANCELLED, SSE_EVENTS.ERROR
Terminal == {"done", "cancelled", "error"}

\* agent names the explored requests use as targets: "b" is a routable
\* specialist, "g" is not registered (a client may name it in approvedPlan)
PlanTargets == {"b", "g"}

\* the `agents` list the orchestrator is configured with: "c" is a
\* registered specialist outside the list
allowedAgents == {"b"}

\* getRoutableAgents: registered, not an orchestrator, with at least one
\* tool, and in the allow-list of the orchestrator
getRoutableAgents(r, allowed) ==
  {x \in DOMAIN r : /\ r[x].registered
                    /\ x \notin getOrchestratorNames(r)
                    /\ r[x].tools
                    /\ x \in allowed}

Ev(name, src, seq) == [name |-> name, src |-> src, seq |-> seq]

\* numbers a list of event names from the issue counter on
RECURSIVE Stamp(_, _, _)
Stamp(names, src, from) ==
  IF names = <<>> THEN <<>>
  ELSE <<Ev(Head(names), src, from + 1)>> \o Stamp(Tail(names), src, from + 1)

\* createSSEStream's writer.writeSSE: enqueue on the controller; a closed
\* controller throws and the write is dropped
writeSSE(evs) ==
  delivered' = IF stream = "open" THEN delivered \o evs ELSE delivered

\* the handler has no awaited write outstanding
Ready ==
  awaitSeq = 0 \/ \E i \in 1..Len(written) : written[i].seq = awaitSeq

\* `await swriter.write(event, data)` of the orchestrator handler, and
\* `await writer.writeSSE({ id: String(id++), ... })` of streamAgentResponse
AwaitWrite(name) ==
  IF kind = "agent"
  THEN LET ev == [name |-> name, src |-> 0, seq |-> issued + 1, id |-> nextId]
       IN /\ written' = Append(written, ev)
          /\ writeSSE(<<ev>>)
          /\ nextId' = nextId + 1
          /\ issued' = issued + 1
          /\ awaitSeq' = issued + 1
          /\ chainQ' = chainQ
  ELSE /\ chainQ' = Append(chainQ, Ev(name, 0, issued + 1))
       /\ issued' = issued + 1
       /\ awaitSeq' = issued + 1
       /\ UNCHANGED <<nextId, written, delivered>>

\* bus.emit of a list of events: bridgeBusToStream forwards each to
\* writer.write without awaiting it
BusEmit(evs) ==
  IF subscribed
  THEN /\ chainQ' = chainQ \o evs
       /\ issued' = issued + Len(evs)
       /\ UNCHANGED <<nextId, written, delivered, awaitSeq>>
  ELSE UNCHANGED outVars

\* mutant of the promise chain: the queued writes run last in, first out
DrainOrderReversed(q) == [i \in 1..Len(q) |-> q[Len(q) + 1 - i]]

\* createStreamWriter: chain.then(...) runs the queued writes first in, first out
DrainOrder(q) == q

\* the promise chain runs the queued writes, each one
\* stream.writeSSE({ id: String(id++), event, data }); the chain is made of
\* microtasks, so it runs to its end before the next I/O event
Drain ==
  /\ chainQ # <<>>
  /\ LET q   == DrainOrder(chainQ)
         run == [i \in 1..Len(q) |-> [name |-> q[i].name, src |-> q[i].src,
                                      seq |-> q[i].seq, id |-> nextId + i - 1]]
     IN /\ written' = written \o run
        /\ writeSSE(run)
  /\ chainQ' = <<>>
  /\ nextId' = nextId + Len(chainQ)
  /\ UNCHANGED <<issued, awaitSeq>>
  /\ UNCHANGED <<cfgVars, delegVars, jsonVars, resVars, clsVars, restVars, reqVars, regVars, planVars, pc, stream, subscribed, slot, chunks, err>>

\* ------------------------------------------------- executeTask (root)
\* executeTask up to its first await, called in the request's root context:
\* an error result of the legality checks, or delegate:start, agent:start
\* and the "processing" status on the bus and the agent run in flight
TaskStart(agent) ==
  IF LegalityError(reg, maxDelegationDepth, RootCtx, agent) # "none"
  THEN [agent |-> agent, st |-> "err", ran |-> FALSE]
  ELSE [agent |-> agent, st |-> "running", ran |-> TRUE]

TaskStartEvents(agent) ==
  IF LegalityError(reg, maxDelegationDepth, RootCtx, agent) # "none"
  THEN <<>>
  ELSE <<"delegate:start", "agent:start", "status">>

\* the synchronous prefixes of tasks.map(executeTask), in declaration order
RECURSIVE StartAll(_, _, _)
StartAll(ts, t, from) ==
  IF ts = <<>> THEN <<>>
  ELSE LET evs == Stamp(TaskStartEvents(Head(ts)), t, from)
       IN evs \o StartAll(Tail(ts), t + 1, from + Len(evs))

\* mutant of Promise.allSettled: resolves as soon as one task has settled
AnySettled(s) ==
  \E t \in DOMAIN s : t # 0 /\ s[t].st # "running"

\* Promise.allSettled(tasks.map(executeTask)) has resolved
AllSettled(s) ==
  \A t \in DOMAIN s : t # 0 => s[t].st # "running"

\* the handler can continue without waiting for I/O: its continuation is a
\* microtask, which the event loop runs before any further I/O event
HandlerRunnable ==
  \/ pc \in {"agent_start", "status0", "ask_user", "plan_status", "plan_ev",
             "exec_status", "synth_status", "think", "direct_text", "end",
             "a_status", "flush1", "direct", "exec", "done", "catch", "finally"}
  \/ pc = "join" /\ AllSettled(slot)
  \/ pc = "plan_tool" /\ slot[0].st # "running"

\* the event loop is between tasks: no queued write, no runnable continuation
Quiet ==
  chainQ = <<>> /\ ~HandlerRunnable

\* the agent run of an executeTask call settles; an aborted signal makes the
\* upstream call throw, which executeTask's catch turns into an error result
TaskSettles(t, outcome) ==
  /\ t \in DOMAIN slot
  /\ slot[t].st = "running"
  /\ Quiet
  /\ aborted => outcome = "err"
  /\ outcome = "items" => t = 0
  /\ slot' = [slot EXCEPT ![t].st = outcome]
  /\ BusEmit(Stamp(<<"agent:end", "delegate:end">>, t, issued))
  /\ UNCHANGED <<cfgVars, delegVars, jsonVars, resVars, clsVars, restVars, reqVars, regVars, planVars, pc, stream, subscribed, chunks, err>>

\* ---------------------------------------------------------- registry
\* an upstream call, a delegated task or a backoff sleep is in flight
InFlight ==
  \/ pc \in {"plan", "plan_sleep", "synth", "a_stream"} /\ Ready
  \/ pc \in {"plan_tool", "join"} /\ \E t \in DOMAIN slot : slot[t].st = "running"

\* cancelRequest(conversationId): abort the controller and drop the entry;
\* the abort event runs createSSEStream's listener, which closes the stream
cancelRequest ==
  /\ ConvId \in activeRequests
  /\ Quiet
  /\ aborted' = TRUE
  /\ activeRequests' = activeRequests \ {ConvId}
  /\ stream' = IF closeOnAbort /\ stream = "open" THEN "closed" ELSE stream
  /\ cancelStage' = IF InFlight THEN "inflight" ELSE "other"
  /\ UNCHANGED closeOnAbort
  /\ UNCHANGED <<cfgVars, delegVars, jsonVars, resVars, clsVars, restVars, reqVars, outVars, planVars, pc, subscribed, slot, chunks, err>>

\* POST /cancel with the conversation id
CancelEndpoint == cancelRequest

\* req.raw.signal fires abort: the listener buildSseHandler installed
ClientDisconnect ==
  /\ kind \in {"orch", "approved"}
  /\ cancelRequest

\* ------------------------------------------------ orchestrator handler
\* buildSseHandler: the request arrives; registerRequest(convId)
StartOrchestrator(auto, pm, approved) ==
  /\ pc = "idle"
  /\ kind' = IF approved = <<>> THEN "orch" ELSE "approved"
  /\ autonomous' = auto
  /\ planMode' = pm
  /\ tasks' = approved
  /\ activeRequests' = activeRequests \cup {ConvId}
  /\ aborted' = FALSE
  /\ pc' = "prompt"
  /\ UNCHANGED <<closeOnAbort, cancelStage, planStep, attempt, stepTask, routeResults, routeUsages, routeItems>>
  /\ UNCHANGED <<cfgVars, delegVars, jsonVars, resVars, clsVars, restVars, outVars, stream, subscribed, slot, chunks, err>>

\* await buildSystemPrompt(...): outside any try
BuildSystemPrompt(ok) ==
  /\ pc = "prompt"
  /\ Quiet
  /\ pc' = IF ok THEN "load" ELSE "rejected"
  /\ UNCHANGED <<cfgVars, delegVars, jsonVars, resVars, clsVars, restVars, reqVars, regVars, outVars, planVars, stream, subscribed, slot, chunks, err>>

\* await loadConversationWithCompaction(...): outside any try; then
\* createSSEStream starts the handler (stream writer, bus bridge, the
\* session:start write) and attaches its abort listener, which never runs
\* when the signal is aborted already
LoadAndOpen(ok) ==
  /\ pc = "load"
  /\ Quiet
  /\ IF ok
     THEN /\ pc' = "agent_start"
          /\ stream' = "open"
          /\ subscribed' = TRUE
          /\ closeOnAbort' = ~aborted
          /\ AwaitWrite("session:start")
     ELSE /\ pc' = "rejected"
          /\ UNCHANGED <<stream, subscribed, closeOnAbort, outVars>>
  /\ UNCHANGED <<activeRequests, aborted, cancelStage>>
  /\ UNCHANGED <<cfgVars, delegVars, jsonVars, resVars, clsVars, restVars, reqVars, planVars, slot, chunks, err>>

\* the event an awaited progress write of the handler carries
ProgressEvent ==
  [p \in {"agent_start", "status0", "ask_user", "plan_status", "plan_ev",
          "exec_status", "synth_status", "think", "direct_text", "end",
          "a_status"} |->
     CASE p = "agent_start" -> "agent:start"
       [] p = "ask_user"    -> "ask:user"
       [] p = "plan_ev"     -> "agent:plan"
       [] p = "think"       -> "agent:think"
       [] p = "direct_text" -> "text-delta"
       [] p = "end"         -> "agent:end"
       [] OTHER             -> "status"]

\* where the handler continues after that write
AfterProgress(p) ==
  CASE p = "agent_start"  -> "status0"
    [] p = "status0"      -> IF kind = "approved" THEN "exec" ELSE "plan"
    [] p = "ask_user"     -> "end"
    [] p = "plan_status"  -> "plan_ev"
    [] p = "plan_ev"      -> IF autonomous THEN "exec_status" ELSE "end"
    [] p = "exec_status"  -> "exec"
    [] p = "synth_status" -> "think"
    [] p = "think"        -> "synth"
    [] p = "direct_text"  -> "save"
    [] p = "end"          -> "done"
    [] p = "a_status"     -> "a_stream"

\* one `await swriter.write(...)` / `await writeStatus(...)` between stages
WriteProgress ==
  /\ pc \in DOMAIN ProgressEvent
  /\ Ready
  /\ AwaitWrite(ProgressEvent[pc])
  /\ pc' = AfterProgress(pc)
  /\ planStep' = IF pc = "status0" /\ kind # "approved" THEN 1 ELSE planStep
  /\ UNCHANGED <<attempt, stepTask, tasks, routeResults, routeUsages, routeItems>>
  /\ UNCHANGED <<cfgVars, delegVars, jsonVars, resVars, clsVars, restVars, reqVars, regVars, stream, subscribed, slot, chunks, err>>

\* tool calls one planning step may hold: at most one routeToAgent and some
\* createTask calls, both restricted to routable agents; planMode offers
\* createTask only
PlanCalls ==
  {c \in [route : (getRoutableAgents(reg, allowedAgents) \cap PlanTargets) \cup {"-"},
          declared : UNION {[1..n -> getRoutableAgents(reg, allowedAgents) \cap PlanTargets] : n \in 0..MaxTasks}] :
     /\ planMode => c.route = "-"
     /\ Len(tasks) + Len(c.declared) <= MaxTasks}

\* a step of the planning generateText call returns its tool calls.  The
\* route tool executes (executeTask); createTask has no execute function,
\* so a step that declares tasks is the last one, as is a step without calls.
PlanModelReturns(c) ==
  /\ pc = "plan"
  /\ Ready
  /\ ~aborted
  /\ Quiet
  /\ c \in PlanCalls
  /\ tasks' = tasks \o c.declared
  /\ stepTask' = (c.declared # <<>>)
  /\ IF c.route # "-"
     THEN /\ slot' = (0 :> TaskStart(c.route))
          /\ BusEmit(Stamp(TaskStartEvents(c.route), 0, issued))
          /\ pc' = "plan_tool"
     ELSE /\ slot' = slot
          /\ UNCHANGED outVars
          /\ pc' = "flush1"
  /\ UNCHANGED <<planStep, attempt, routeResults, routeUsages, routeItems>>
  /\ UNCHANGED <<cfgVars, delegVars, jsonVars, resVars, clsVars, restVars, reqVars, regVars, stream, subscribed, chunks, err>>

\* the route tool's executeTask has returned its result to generateText
PlanToolSettled ==
  /\ pc = "plan_tool"
  /\ slot[0].st # "running"
  /\ routeResults' = routeResults + 1
  /\ routeUsages' = routeUsages
  /\ routeItems' = (routeItems \/ slot[0].st = "items")
  /\ slot' = <<>>
  /\ IF stepTask \/ planStep >= MaxSteps
     THEN pc' = "flush1" /\ planStep' = planStep
     ELSE pc' = "plan" /\ planStep' = planStep + 1
  /\ UNCHANGED <<attempt, stepTask, tasks>>
  /\ UNCHANGED <<cfgVars, delegVars, jsonVars, resVars, clsVars, restVars, reqVars, regVars, outVars, stream, subscribed, chunks, err>>

\* the planning call fails.  withResilience rethrows a non-retryable error,
\* and a retryable one once the retries are used up (no fallback hook is
\* configured); otherwise it emits the "retrying" status and sleeps.
PlanModelFails(retryable) ==
  /\ pc = "plan"
  /\ Ready
  /\ ~aborted
  /\ Quiet
  /\ IF retryable /\ attempt < MaxRetries
     THEN /\ pc' = "plan_sleep"
          /\ err' = err
          /\ BusEmit(Stamp(<<"status">>, 0, issued))
     ELSE /\ pc' = "catch"
          /\ err' = "error"
          /\ UNCHANGED outVars
  /\ UNCHANGED <<cfgVars, delegVars, jsonVars, resVars, clsVars, restVars, reqVars, regVars, planVars, stream, subscribed, slot, chunks>>

\* the backoff timer fires: the next attempt calls fn() afresh
PlanSleepDone ==
  /\ pc = "plan_sleep"
  /\ ~aborted
  /\ Quiet
  /\ attempt' = attempt + 1
  /\ planStep' = 1
  /\ tasks' = <<>>
  /\ routeResults' = 0
  /\ routeUsages' = routeUsages
  /\ routeItems' = FALSE
  /\ stepTask' = FALSE
  /\ pc' = "plan"
  /\ UNCHANGED <<cfgVars, delegVars, jsonVars, resVars, clsVars, restVars, reqVars, regVars, outVars, stream, subscribed, slot, chunks, err>>

\* the aborted signal rejects the planning call or the backoff sleep with
\* an AbortError, which withResilience rethrows
PlanAborted ==
  /\ pc \in {"plan", "plan_sleep"}
  /\ Ready
  /\ aborted
  /\ err' = "abort"
  /\ pc' = "catch"
  /\ UNCHANGED <<cfgVars, delegVars, jsonVars, resVars, clsVars, restVars, reqVars, regVars, outVars, planVars, stream, subscribed, slot, chunks>>

\* `await swriter.flush()` after planning, then the handler's branch: the
\* clarification check, the declared tasks, the route results, or the
\* direct answer
AfterPlan ==
  /\ pc = "flush1"
  /\ chainQ = <<>>
  /\ pc' = IF ~autonomous /\ routeItems THEN "ask_user"
           ELSE IF tasks # <<>> THEN "plan_status"
           ELSE IF routeResults > 0 THEN "synth_status"
           ELSE "direct"
  /\ UNCHANGED <<cfgVars, delegVars, jsonVars, resVars, clsVars, restVars, reqVars, regVars, outVars, planVars, stream, subscribed, slot, chunks, err>>

\* direct mode: planResult.text is written when it is not empty
DirectAnswer(hasText) ==
  /\ pc = "direct"
  /\ pc' = IF hasText THEN "direct_text" ELSE "end"
  /\ UNCHANGED <<cfgVars, delegVars, jsonVars, resVars, clsVars, restVars, reqVars, regVars, outVars, planVars, stream, subscribed, slot, chunks, err>>

\* executeTasksSettled: every task's executeTask runs up to its first await
ExecuteTasks ==
  /\ pc = "exec"
  /\ Ready
  /\ slot' = [t \in 1..Len(tasks) |-> TaskStart(tasks[t])]
  /\ BusEmit(StartAll(tasks, 1, issued))
  /\ pc' = "join"
  /\ UNCHANGED <<cfgVars, delegVars, jsonVars, resVars, clsVars, restVars, reqVars, regVars, planVars, stream, subscribed, chunks, err>>

\* Promise.allSettled resolves; `await swriter.flush()`
JoinTasks ==
  /\ pc = "join"
  /\ AllSettled(slot)
  /\ chainQ = <<>>
  /\ pc' = "synth_status"
  /\ UNCHANGED <<cfgVars, delegVars, jsonVars, resVars, clsVars, restVars, reqVars, regVars, outVars, planVars, stream, subscribed, slot, chunks, err>>

\* synthesizeStreaming: the text stream yields a chunk, written as text-delta
SynthChunk ==
  /\ pc = "synth"
  /\ Ready
  /\ ~aborted
  /\ Quiet
  /\ chunks < MaxChunks
  /\ chunks' = chunks + 1
  /\ AwaitWrite("text-delta")
  /\ UNCHANGED <<cfgVars, delegVars, jsonVars, resVars, clsVars, restVars, reqVars, regVars, planVars, pc, stream, subscribed, slot, err>>

\* the synthesis stream ends: its usage resolves
SynthDone ==
  /\ pc = "synth"
  /\ Ready
  /\ ~aborted
  /\ Quiet
  /\ pc' = "save"
  /\ UNCHANGED <<cfgVars, delegVars, jsonVars, resVars, clsVars, restVars, reqVars, regVars, outVars, planVars, stream, subscribed, slot, chunks, err>>

\* the synthesis call throws: an AbortError when the signal is aborted,
\* an upstream error otherwise
SynthThrows ==
  /\ pc = "synth"
  /\ Ready
  /\ aborted \/ Quiet
  /\ err' = IF aborted THEN "abort" ELSE "error"
  /\ pc' = "catch"
  /\ UNCHANGED <<cfgVars, delegVars, jsonVars, resVars, clsVars, restVars, reqVars, regVars, outVars, planVars, stream, subscribed, slot, chunks>>

\* saveAssistantResponse: the conversation store appends, or throws
SaveResponse(ok) ==
  /\ pc = "save"
  /\ Ready
  /\ Quiet
  /\ IF ok THEN pc' = "end" /\ err' = err
           ELSE pc' = "catch" /\ err' = "error"
  /\ UNCHANGED <<cfgVars, delegVars, jsonVars, resVars, clsVars, restVars, reqVars, regVars, outVars, planVars, stream, subscribed, slot, chunks>>

\* mutant of the handler's exits: the `return` after the awaiting-approval
\* done is missing, so the handler goes on to execute the plan
AfterDoneFallsThrough ==
  IF kind = "orch" /\ ~autonomous /\ tasks # <<>> /\ slot = <<>>
  THEN "exec_status" ELSE "finally"

\* every branch of the handler ends with the done write and leaves the try
AfterDone == "finally"

\* `await swriter.write(SSE_EVENTS.DONE, ...)`
WriteDone ==
  /\ pc = "done"
  /\ Ready
  /\ AwaitWrite("done")
  /\ pc' = AfterDone
  /\ UNCHANGED <<cfgVars, delegVars, jsonVars, resVars, clsVars, restVars, reqVars, regVars, planVars, stream, subscribed, slot, chunks, err>>

\* catch: errName === "AbortError" || abortSignal.aborted
CaughtEvent ==
  IF err = "abort" \/ aborted THEN "cancelled" ELSE "error"

\* the handler's catch block writes cancelled or error
Catch ==
  /\ pc = "catch"
  /\ Ready
  /\ AwaitWrite(CaughtEvent)
  /\ pc' = "finally"
  /\ UNCHANGED <<cfgVars, delegVars, jsonVars, resVars, clsVars, restVars, reqVars, regVars, planVars, stream, subscribed, slot, chunks, err>>

\* finally { unregisterRequest(convId); unsub(); } and createSSEStream's
\* .finally(() => writer.close())
Finally ==
  /\ pc = "finally"
  /\ Ready
  /\ activeRequests' = activeRequests \ {ConvId}
  /\ subscribed' = FALSE
  /\ stream' = "closed"
  /\ pc' = "closed"
  /\ UNCHANGED <<aborted, closeOnAbort, cancelStage>>
  /\ UNCHANGED <<cfgVars, delegVars, jsonVars, resVars, clsVars, restVars, reqVars, outVars, planVars, slot, chunks, err>>

\* ------------------------------------------------ streamAgentResponse
\* makeRegistryStreamHandler: the request arrives
StartAgent ==
  /\ pc = "idle"
  /\ kind' = "agent"
  /\ pc' = "a_load"
  /\ UNCHANGED <<autonomous, planMode>>
  /\ UNCHANGED <<cfgVars, delegVars, jsonVars, resVars, clsVars, restVars, regVars, outVars, planVars, stream, subscribed, slot, chunks, err>>

\* await loadConversationWithCompaction(...), then streamAgentResponse:
\* registerRequest, streamText, createSSEStream and the session:start write
AgentLoadAndOpen(ok) ==
  /\ pc = "a_load"
  /\ Quiet
  /\ IF ok
     THEN /\ activeRequests' = activeRequests \cup {ConvId}
          /\ aborted' = FALSE
          /\ closeOnAbort' = TRUE
          /\ stream' = "open"
          /\ delivered' = <<[name |-> "session:start", src |-> 0, seq |-> issued + 1, id |-> nextId]>>
          /\ written' = delivered'
          /\ nextId' = nextId + 1
          /\ issued' = issued + 1
          /\ awaitSeq' = issued + 1
          /\ chainQ' = chainQ
          /\ pc' = "a_status"
     ELSE /\ pc' = "rejected"
          /\ UNCHANGED <<activeRequests, aborted, closeOnAbort, stream, outVars>>
  /\ UNCHANGED cancelStage
  /\ UNCHANGED <<cfgVars, delegVars, jsonVars, resVars, clsVars, restVars, reqVars, planVars, subscribed, slot, chunks, err>>

\* for await (const chunk of result.fullStream): a chunk is written
AgentChunk(name) ==
  /\ pc = "a_stream"
  /\ ~aborted
  /\ Quiet
  /\ chunks < MaxChunks
  /\ chunks' = chunks + 1
  /\ AwaitWrite(name)
  /\ UNCHANGED <<cfgVars, delegVars, jsonVars, resVars, clsVars, restVars, reqVars, regVars, planVars, pc, stream, subscribed, slot, err>>

\* the full stream ends
AgentStreamEnds ==
  /\ pc = "a_stream"
  /\ ~aborted
  /\ Quiet
  /\ pc' = "a_complete"
  /\ UNCHANGED <<cfgVars, delegVars, jsonVars, resVars, clsVars, restVars, reqVars, regVars, outVars, planVars, stream, subscribed, slot, chunks, err>>

\* the full stream throws: an AbortError when aborted, else an upstream error
AgentStreamThrows ==
  /\ pc = "a_stream"
  /\ aborted \/ Quiet
  /\ err' = IF aborted THEN "abort" ELSE "error"
  /\ pc' = "catch"
  /\ UNCHANGED <<cfgVars, delegVars, jsonVars, resVars, clsVars, restVars, reqVars, regVars, outVars, planVars, stream, subscribed, slot, chunks>>

\* await config.onStreamComplete(...) and await result.usage
AgentComplete(ok) ==
  /\ pc = "a_complete"
  /\ Quiet
  /\ IF ok THEN pc' = "done" /\ err' = err
           ELSE pc' = "catch" /\ err' = "error"
  /\ UNCHANGED <<cfgVars, delegVars, jsonVars, resVars, clsVars, restVars, reqVars, regVars, outVars, planVars, stream, subscribed, slot, chunks>>

\* ------------------------------------------------------- specification
ApprovedPlans ==
  UNION {[1..n -> PlanTargets] : n \in 1..MaxTasks}

InitStream ==
  /\ reg = AgentRegistrations
  /\ maxDelegationDepth = DefaultMaxDelegationDepth
  /\ root = RootCtx
  /\ stack = <<>>
  /\ last = NoOutcome
  /\ StreamIdle
  /\ JsonIdle
  /\ ResIdle
  /\ ClsIdle
  /\ RestIdle

NextStream ==
  \/ \E auto \in BOOLEAN, pm \in BOOLEAN, approved \in ApprovedPlans \cup {<<>>} :
       StartOrchestrator(auto, pm, approved)
  \/ \E ok \in BOOLEAN : BuildSystemPrompt(ok)
  \/ \E ok \in BOOLEAN : LoadAndOpen(ok)
  \/ WriteProgress
  \/ \E c \in PlanCalls : PlanModelReturns(c)
  \/ PlanToolSettled
  \/ \E retryable \in BOOLEAN : PlanModelFails(retryable)
  \/ PlanSleepDone
  \/ PlanAborted
  \/ AfterPlan
  \/ \E hasText \in BOOLEAN : DirectAnswer(hasText)
  \/ ExecuteTasks
  \/ \E t \in 0..MaxTasks, outcome \in {"ok", "items", "err"} : TaskSettles(t, outcome)
  \/ JoinTasks
  \/ SynthChunk
  \/ SynthDone
  \/ SynthThrows
  \/ \E ok \in BOOLEAN : SaveResponse(ok)
  \/ WriteDone
  \/ Catch
  \/ Finally
  \/ Drain
  \/ CancelEndpoint
  \/ ClientDisconnect
  \/ StartAgent
  \/ \E ok \in BOOLEAN : AgentLoadAndOpen(ok)
  \/ \E name \in {"text-delta", "tool-call", "tool-result"} : AgentChunk(name)
  \/ AgentStreamEnds
  \/ AgentStreamThrows
  \/ \E ok \in BOOLEAN : AgentComplete(ok)

SpecStream == InitStream /\ [][NextStream]_vars


\* ================================================================== json
\* buildJsonHandler: one JSON request.  It registers no cancellation token
\* and subscribes nothing to the bus; the request state (kind, autonomous,
\* tasks, slot, planStep, ...) is held in the variables of the request.
JsonStart(auto, approved) ==
  /\ pc = "idle"
  /\ kind' = IF approved = <<>> THEN "json" ELSE "json_approved"
  /\ autonomous' = auto
  /\ tasks' = approved
  /\ pc' = IF approved = <<>> THEN "j_prompt" ELSE "j_exec"
  /\ UNCHANGED <<planMode, planStep, attempt, stepTask, routeResults, routeUsages, routeItems>>
  /\ UNCHANGED <<cfgVars, delegVars, jsonVars, resVars, clsVars, restVars, regVars, outVars, stream, subscribed, slot, chunks, err>>

\* await buildSystemPrompt(...), then the tools are built and the planning
\* call starts
JsonBuildSystemPrompt(ok) ==
  /\ pc = "j_prompt"
  /\ pc' = IF ok THEN "j_plan" ELSE "rejected"
  /\ planStep' = IF ok THEN 1 ELSE planStep
  /\ err' = IF ok THEN err ELSE "error"
  /\ UNCHANGED <<attempt, stepTask, tasks, routeResults, routeUsages, routeItems>>
  /\ UNCHANGED <<cfgVars, delegVars, jsonVars, resVars, clsVars, restVars, reqVars, regVars, outVars, stream, subscribed, slot, chunks>>

\* a step of the planning generateText call returns its tool calls
JsonPlanModelReturns(c) ==
  /\ pc = "j_plan"
  /\ c \in PlanCalls
  /\ tasks' = tasks \o c.declared
  /\ stepTask' = (c.declared # <<>>)
  /\ IF c.route # "-"
     THEN /\ slot' = (0 :> TaskStart(c.route))
          /\ pc' = "j_plan_tool"
     ELSE /\ slot' = slot
          /\ pc' = "j_collect"
  /\ UNCHANGED <<planStep, attempt, routeResults, routeUsages, routeItems>>
  /\ UNCHANGED <<cfgVars, delegVars, jsonVars, resVars, clsVars, restVars, reqVars, regVars, outVars, stream, subscribed, chunks, err>>

\* the route tool's executeTask has returned its result to generateText
JsonPlanToolSettled ==
  /\ pc = "j_plan_tool"
  /\ slot[0].st # "running"
  /\ routeResults' = routeResults + 1
  /\ routeUsages' = routeUsages + (IF slot[0].st \in {"ok", "items"} THEN 1 ELSE 0)
  /\ routeItems' = (routeItems \/ slot[0].st = "items")
  /\ slot' = <<>>
  /\ IF stepTask \/ planStep >= MaxSteps
     THEN pc' = "j_collect" /\ planStep' = planStep
     ELSE pc' = "j_plan" /\ planStep' = planStep + 1
  /\ UNCHANGED <<attempt, stepTask, tasks>>
  /\ UNCHANGED <<cfgVars, delegVars, jsonVars, resVars, clsVars, restVars, reqVars, regVars, outVars, stream, subscribed, chunks, err>>

\* the planning call fails: withResilience sleeps and retries a retryable
\* error while retries are left, and rethrows otherwise; the handler has no
\* try around it
JsonPlanModelFails(retryable) ==
  /\ pc = "j_plan"
  /\ IF retryable /\ attempt < MaxRetries
     THEN /\ pc' = "j_sleep"
          /\ err' = err
     ELSE /\ pc' = "rejected"
          /\ err' = "error"
  /\ UNCHANGED <<cfgVars, delegVars, jsonVars, resVars, clsVars, restVars, reqVars, regVars, outVars, planVars, stream, subscribed, slot, chunks>>

\* the backoff timer fires: the next attempt calls fn() afresh
JsonPlanSleepDone ==
  /\ pc = "j_sleep"
  /\ attempt' = attempt + 1
  /\ planStep' = 1
  /\ tasks' = <<>>
  /\ routeResults' = 0
  /\ routeUsages' = 0
  /\ routeItems' = FALSE
  /\ stepTask' = FALSE
  /\ pc' = "j_plan"
  /\ UNCHANGED <<cfgVars, delegVars, jsonVars, resVars, clsVars, restVars, reqVars, regVars, outVars, stream, subscribed, slot, chunks, err>>

\* collectTasksFromSteps, then `if (tasks.length > 0)`: the tasks are
\* executed whatever `autonomous` is; otherwise the direct response
JsonAfterPlan ==
  /\ pc = "j_collect"
  /\ pc' = IF tasks # <<>> THEN "j_exec" ELSE "j_direct"
  /\ UNCHANGED <<cfgVars, delegVars, jsonVars, resVars, clsVars, restVars, reqVars, regVars, outVars, planVars, stream, subscribed, slot, chunks, err>>

\* executeTasksSettled: every task's executeTask runs up to its first await
JsonExecuteTasks ==
  /\ pc = "j_exec"
  /\ slot' = [t \in 1..Len(tasks) |-> TaskStart(tasks[t])]
  /\ pc' = "j_join"
  /\ UNCHANGED <<cfgVars, delegVars, jsonVars, resVars, clsVars, restVars, reqVars, regVars, outVars, planVars, stream, subscribed, chunks, err>>

\* Promise.allSettled resolves
JsonJoinTasks ==
  /\ pc = "j_join"
  /\ AllSettled(slot)
  /\ pc' = "j_synth"
  /\ UNCHANGED <<cfgVars, delegVars, jsonVars, resVars, clsVars, restVars, reqVars, regVars, outVars, planVars, stream, subscribed, slot, chunks, err>>

\* await synthesizeJson(...), then the response with the synthesized text
\* and the task summaries
JsonSynthesize(ok) ==
  /\ pc = "j_synth"
  /\ pc' = IF ok THEN "responded" ELSE "rejected"
  /\ response' = IF ok THEN "synthesized" ELSE response
  /\ err' = IF ok THEN err ELSE "error"
  /\ UNCHANGED <<cfgVars, delegVars, resVars, clsVars, restVars, reqVars, regVars, outVars, planVars, stream, subscribed, slot, chunks>>

\* the direct response: result.text with the usage of the route results
JsonRespondDirect ==
  /\ pc = "j_direct"
  /\ pc' = "responded"
  /\ response' = "direct"
  /\ UNCHANGED <<cfgVars, delegVars, resVars, clsVars, restVars, reqVars, regVars, outVars, planVars, stream, subscribed, slot, chunks, err>>

\* body.approvedPlan of a JSON request: the client names any agent
ClientPlans ==
  UNION {[1..n -> PlanTargets \cup {"c"}] : n \in 1..MaxTasks}

InitJson ==
  /\ reg = AgentRegistrations
  /\ maxDelegationDepth = DefaultMaxDelegationDepth
  /\ root = RootCtx
  /\ stack = <<>>
  /\ last = NoOutcome
  /\ StreamIdle
  /\ JsonIdle
  /\ ResIdle
  /\ ClsIdle
  /\ RestIdle

NextJson ==
  \/ \E auto \in BOOLEAN, approved \in ClientPlans \cup {<<>>} : JsonStart(auto, approved)
  \/ \E ok \in BOOLEAN : JsonBuildSystemPrompt(ok)
  \/ \E c \in PlanCalls : JsonPlanModelReturns(c)
  \/ JsonPlanToolSettled
  \/ \E retryable \in BOOLEAN : JsonPlanModelFails(retryable)
  \/ JsonPlanSleepDone
  \/ JsonAfterPlan
  \/ JsonExecuteTasks
  \/ \E t \in 0..MaxTasks, outcome \in {"ok", "items", "err"} : TaskSettles(t, outcome)
  \/ JsonJoinTasks
  \/ \E ok \in BOOLEAN : JsonSynthesize(ok)
  \/ JsonRespondDirect

SpecJson == InitJson /\ [][NextJson]_vars

\* ============================================================ resilience
\* ------------------------------------------------------------------ bounds
\* longest error message explored, in words
MaxMsgLen == 2
\* largest config.maxRetries explored (the program default is 3)
MaxConfiguredRetries == 2

\* RETRYABLE_STATUS_CODES / NON_RETRYABLE_STATUS_CODES
RETRYABLE_STATUS_CODES == {429, 500, 502, 503, 504}

NON_RETRYABLE_STATUS_CODES == {400, 401, 403, 404, 422}

\* words of a message that /\b(\d{3})\b/ matches, with their value
ThreeDigitWords ==
  [w \in {"200", "401", "422", "429", "503"} |->
     CASE w = "200" -> 200 [] w = "401" -> 401 [] w = "422" -> 422
       [] w = "429" -> 429 [] w = "503" -> 503]

\* message.includes(...) of the timeout / network, capacity and rate-limit tests
RetryKeywords ==
  {"timeout", "timed out", "econnreset", "econnrefused", "network",
   "fetch failed", "socket hang up", "overloaded", "capacity",
   "rate limit", "too many requests"}

\* message.match(/\b(\d{3})\b/): the first three-digit number of the
\* message, 0 when there is none
RECURSIVE FirstNumber(_)
FirstNumber(msg) ==
  IF msg = <<>> THEN 0
  ELSE IF Head(msg) \in DOMAIN ThreeDigitWords THEN ThreeDigitWords[Head(msg)]
  ELSE FirstNumber(Tail(msg))

\* isRetryableError, test by test in source order
isRetryableError(e) ==
  IF ~e.isError THEN FALSE
  ELSE IF e.name = "AbortError" THEN FALSE
  ELSE IF FirstNumber(e.msg) \in RETRYABLE_STATUS_CODES THEN TRUE
  ELSE IF FirstNumber(e.msg) \in NON_RETRYABLE_STATUS_CODES THEN FALSE
  ELSE IF e.status \in RETRYABLE_STATUS_CODES THEN TRUE
  ELSE IF e.status \in NON_RETRYABLE_STATUS_CODES THEN FALSE
  ELSE \E i \in 1..Len(e.msg) : e.msg[i] \in RetryKeywords

\* ------------------------------------------------------ SpecClassify
MsgWords == {"200", "401", "422", "503", "timeout", "failed"}

Messages == UNION {[1..n -> MsgWords] : n \in 0..MaxMsgLen}

ClassifyInputs ==
  {Err(isE, name, status, msg) :
     isE \in BOOLEAN, name \in {"Error", "AbortError"},
     status \in {0, 401, 404, 429, 500}, msg \in Messages}

\* isRetryableError(thrownValue) is called
Classify ==
  /\ verdict = "unset"
  /\ verdict' = IF isRetryableError(thrownValue) THEN "retryable" ELSE "final"
  /\ UNCHANGED <<cfgVars, delegVars, streamVars, jsonVars, resVars, thrownValue, restVars>>

InitClassify ==
  /\ reg = AgentRegistrations
  /\ maxDelegationDepth = DefaultMaxDelegationDepth
  /\ root = RootCtx
  /\ stack = <<>>
  /\ last = NoOutcome
  /\ StreamIdle
  /\ JsonIdle
  /\ ResIdle
  /\ RestIdle
  /\ thrownValue \in ClassifyInputs
  /\ verdict = "unset"

NextClassify == Classify

SpecClassify == InitClassify /\ [][NextClassify]_vars

\* ---------------------------------------------------------- SpecRes
\* errors the wrapped operation throws: a 429, a 401, a timeout, a 401
\* whose message names a 503, and the AbortError of an aborted call
E429 == Err(TRUE, "Error", 429, <<"failed">>)

E401 == Err(TRUE, "Error", 401, <<"failed">>)

ETimeout == Err(TRUE, "Error", 0, <<"timeout">>)

E401Via503 == Err(TRUE, "Error", 401, <<"503">>)

EAbort == Err(TRUE, "AbortError", 0, <<"failed">>)

EHook == Err(TRUE, "Error", 0, <<"failed">>)

FnErrors == {E429, E401, ETimeout, E401Via503, EAbort}

Call(model, result) == [model |-> model, result |-> result]

\* withResilience is called: the config is read, the loop starts with
\* attempt = 0 and fn() is invoked
ResStart(mr, hook) ==
  /\ resPc = "idle"
  /\ maxRetries' = mr
  /\ onFallback' = hook
  /\ resAttempt' = 0
  /\ resPc' = "call"
  /\ UNCHANGED <<calls, lastError, sleeps, resAborted, abortedInSleep, thrown>>
  /\ UNCHANGED <<cfgVars, delegVars, streamVars, jsonVars, clsVars, restVars>>

\* `return await fn()` returns
FnReturns ==
  /\ resPc = "call"
  /\ calls' = Append(calls, Call("default", NoError))
  /\ resPc' = "returned"
  /\ UNCHANGED <<maxRetries, onFallback, resAttempt, lastError, sleeps, resAborted, abortedInSleep, thrown>>
  /\ UNCHANGED <<cfgVars, delegVars, streamVars, jsonVars, clsVars, restVars>>

\* mutant of the exhaustion test: off by one
LastAttemptEarly(n, mr) == n + 1 >= mr

\* `if (attempt === maxRetries) break`
LastAttempt(n, mr) == n = mr

\* mutant of the fallback test: fn is invoked whatever the hook returned
UseFallbackAlways(fallbackModel) == TRUE

\* `if (fallbackModel)`
UseFallback(fallbackModel) == fallbackModel # "none"

\* `await fn()` throws: the catch block.  Aborts and non-retryable errors
\* are rethrown; on the last attempt the loop is left, for the fallback
\* hook when there is one and the rethrow of lastError when there is none;
\* otherwise the retrying status is emitted and the backoff sleep starts
FnThrows(e) ==
  /\ resPc = "call"
  /\ calls' = Append(calls, Call("default", e))
  /\ lastError' = e
  /\ IF e.name = "AbortError" \/ resAborted \/ ~isRetryableError(e)
     THEN resPc' = "thrown" /\ thrown' = e /\ sleeps' = sleeps
     ELSE IF LastAttempt(resAttempt, maxRetries)
     THEN /\ sleeps' = sleeps
          /\ IF onFallback # "none"
             THEN resPc' = "fallback" /\ thrown' = thrown
             ELSE resPc' = "thrown" /\ thrown' = e
     ELSE resPc' = "sleep" /\ sleeps' = sleeps + 1 /\ thrown' = thrown
  /\ UNCHANGED <<maxRetries, onFallback, resAttempt, resAborted, abortedInSleep>>
  /\ UNCHANGED <<cfgVars, delegVars, streamVars, jsonVars, clsVars, restVars>>

\* mutant of sleep: the timer ignores the signal
SleepIgnoresSignal(signalAborted) == "timer"

\* sleep(ms, signal): rejected with an AbortError as soon as the signal is
\* aborted, resolved by the timer otherwise
SleepOutcome(signalAborted) == IF signalAborted THEN "AbortError" ELSE "timer"

\* the backoff timer fires: attempt++, the loop condition, the next fn()
SleepDone ==
  /\ resPc = "sleep"
  /\ SleepOutcome(resAborted) = "timer"
  /\ resAttempt' = resAttempt + 1
  /\ IF resAttempt + 1 <= maxRetries
     THEN resPc' = "call" /\ thrown' = thrown
     ELSE IF onFallback # "none"
     THEN resPc' = "fallback" /\ thrown' = thrown
     ELSE resPc' = "thrown" /\ thrown' = lastError
  /\ UNCHANGED <<maxRetries, onFallback, calls, lastError, sleeps, resAborted, abortedInSleep>>
  /\ UNCHANGED <<cfgVars, delegVars, streamVars, jsonVars, clsVars, restVars>>

\* the request's signal is aborted.  The abort listener of a pending sleep
\* clears the timer and rejects it; the rejection leaves withResilience
\* through the catch block it was awaited in
ResAbort ==
  /\ resPc \in {"call", "sleep", "fallback", "fbcall"}
  /\ ~resAborted
  /\ resAborted' = TRUE
  /\ abortedInSleep' = (resPc = "sleep")
  /\ IF resPc = "sleep" /\ SleepOutcome(TRUE) = "AbortError"
     THEN resPc' = "thrown" /\ thrown' = EAbort
     ELSE resPc' = resPc /\ thrown' = thrown
  /\ UNCHANGED <<maxRetries, onFallback, resAttempt, calls, lastError, sleeps>>
  /\ UNCHANGED <<cfgVars, delegVars, streamVars, jsonVars, clsVars, restVars>>

\* `await onFallback(...)` returns a model id or nothing
FallbackReturns ==
  /\ resPc = "fallback"
  /\ onFallback \in {"declines", "substitute"}
  /\ IF UseFallback(IF onFallback = "substitute" THEN "fallback" ELSE "none")
     THEN resPc' = "fbcall" /\ thrown' = thrown
     ELSE resPc' = "thrown" /\ thrown' = lastError
  /\ UNCHANGED <<maxRetries, onFallback, resAttempt, calls, lastError, sleeps, resAborted, abortedInSleep>>
  /\ UNCHANGED <<cfgVars, delegVars, streamVars, jsonVars, clsVars, restVars>>

\* `await onFallback(...)` throws: nothing catches it
FallbackThrows ==
  /\ resPc = "fallback"
  /\ onFallback = "throws"
  /\ resPc' = "thrown"
  /\ thrown' = EHook
  /\ UNCHANGED <<maxRetries, onFallback, resAttempt, calls, lastError, sleeps, resAborted, abortedInSleep>>
  /\ UNCHANGED <<cfgVars, delegVars, streamVars, jsonVars, clsVars, restVars>>

\* `return await fn(fallbackModel)` returns
FallbackCallReturns ==
  /\ resPc = "fbcall"
  /\ calls' = Append(calls, Call("fallback", NoError))
  /\ resPc' = "returned"
  /\ UNCHANGED <<maxRetries, onFallback, resAttempt, lastError, sleeps, resAborted, abortedInSleep, thrown>>
  /\ UNCHANGED <<cfgVars, delegVars, streamVars, jsonVars, clsVars, restVars>>

\* `return await fn(fallbackModel)` throws: outside the loop, no retry
FallbackCallThrows(e) ==
  /\ resPc = "fbcall"
  /\ calls' = Append(calls, Call("fallback", e))
  /\ resPc' = "thrown"
  /\ thrown' = e
  /\ UNCHANGED <<maxRetries, onFallback, resAttempt, lastError, sleeps, resAborted, abortedInSleep>>
  /\ UNCHANGED <<cfgVars, delegVars, streamVars, jsonVars, clsVars, restVars>>

InitRes ==
  /\ reg = AgentRegistrations
  /\ maxDelegationDepth = DefaultMaxDelegationDepth
  /\ root = RootCtx
  /\ stack = <<>>
  /\ last = NoOutcome
  /\ StreamIdle
  /\ JsonIdle
  /\ ResIdle
  /\ ClsIdle
  /\ RestIdle

NextRes ==
  \/ \E mr \in 0..MaxConfiguredRetries,
        hook \in {"none", "declines", "substitute", "throws"} : ResStart(mr, hook)
  \/ FnReturns
  \/ \E e \in FnErrors : FnThrows(e)
  \/ SleepDone
  \/ ResAbort
  \/ FallbackReturns
  \/ FallbackThrows
  \/ FallbackCallReturns
  \/ \E e \in FnErrors : FallbackCallThrows(e)

SpecRes == InitRes /\ [][NextRes]_vars

\* -------------------------------------------------------- SpecUsage
\* everything outside the utilities below is at rest
CoreIdle ==
  /\ reg = AgentRegistrations
  /\ maxDelegationDepth = DefaultMaxDelegationDepth
  /\ root = RootCtx
  /\ stack = <<>>
  /\ last = NoOutcome
  /\ StreamIdle
  /\ JsonIdle
  /\ ResIdle
  /\ ClsIdle

MantissaBits == 3
MaxUsages == 3

\* the weight of the last mantissa bit of x, for a mantissa of
\* MantissaBits bits
RECURSIVE Ulp(_)
Ulp(x) == IF x < 2^MantissaBits THEN 1 ELSE 2 * Ulp(x \div 2)

\* `a + b` on Numbers: the exact sum rounded to the nearest representable
\* value, ties to the even mantissa.  Numbers are floating-point values;
\* the mantissa is MantissaBits wide here and 53 bits wide in the runtime
NumberAdd(a, b) ==
  LET x == a + b
      u == Ulp(x)
      q == x \div u
      r == x % u
  IN  IF 2 * r < u \/ (2 * r = u /\ q % 2 = 0) THEN q * u ELSE (q + 1) * u

\* mutant: a null cost turns the sum null
AddCostPoisoned(mergedCost, uCost) ==
  IF uCost = NullCost \/ mergedCost = NullCost THEN NullCost
  ELSE NumberAdd(mergedCost, uCost)

\* `if (u.cost !== null) merged.cost = (merged.cost ?? 0) + u.cost`
AddCost(mergedCost, uCost) ==
  IF uCost # NullCost
  THEN NumberAdd(IF mergedCost = NullCost THEN 0 ELSE mergedCost, uCost)
  ELSE mergedCost

\* mutant: the duration of the last record
LastDuration(mergedMs, uMs) == uMs

\* `if (u.durationMs > merged.durationMs) merged.durationMs = u.durationMs`
LongerDuration(mergedMs, uMs) == IF uMs > mergedMs THEN uMs ELSE mergedMs

\* the loop of mergeUsage over the records not yet merged.  Token counts
\* are integers far below 2^53, which Numbers add exactly; costs are
\* fractions, which they add with rounding
RECURSIVE MergeInto(_, _)
MergeInto(m, us) ==
  IF us = <<>> THEN m
  ELSE LET u == Head(us)
       IN  MergeInto([inputTokens  |-> m.inputTokens + u.inputTokens,
                      outputTokens |-> m.outputTokens + u.outputTokens,
                      totalTokens  |-> m.totalTokens + u.totalTokens,
                      cost         |-> AddCost(m.cost, u.cost),
                      durationMs   |-> LongerDuration(m.durationMs, u.durationMs)],
                     Tail(us))

mergeUsage(us) == MergeInto(NoUsage, us)

\* usage records as extractUsage builds them: token counts, a cost that is
\* null or a number, a duration
UsageInfos ==
  {[inputTokens |-> t, outputTokens |-> 2 * t, totalTokens |-> 3 * t,
    cost |-> c, durationMs |-> d] :
     t \in {0, 1}, c \in {NullCost, 1, 2^MantissaBits}, d \in {1, 2}}

\* mergeUsage(...usages), and mergeUsage of the two partial merges of the
\* same records taken in the order p and split after the k-th
Merge(p, k) ==
  /\ usePc = "in"
  /\ merged' = mergeUsage(usages)
  /\ LET permuted == [i \in 1..Len(usages) |-> usages[p[i]]]
     IN  remerged' = mergeUsage(<<mergeUsage(SubSeq(permuted, 1, k)),
                                  mergeUsage(SubSeq(permuted, k + 1, Len(usages)))>>)
  /\ usePc' = "out"
  /\ UNCHANGED <<cfgVars, delegVars, streamVars, jsonVars, resVars, clsVars, usages, convVars, listVars, alsVars, registryVars>>

InitUsage ==
  /\ CoreIdle
  /\ ConvIdle
  /\ ListIdle
  /\ AlsIdle
  /\ RegistryIdle
  /\ usages \in UNION {[1..n -> UsageInfos] : n \in 0..MaxUsages}
  /\ merged = NoUsage
  /\ remerged = NoUsage
  /\ usePc = "in"

NextUsage == \E p \in Permutations(1..Len(usages)), k \in 0..Len(usages) : Merge(p, k)

SpecUsage == InitUsage /\ [][NextUsage]_vars

\* --------------------------------------------- usage of a JSON request
\* the UsageInfo of one upstream call.  The calls of each stage are given
\* a token count of their own power of ten, so that a sum tells how many
\* calls of each stage it holds.
StageUsage(tokens) ==
  [NoUsage EXCEPT !.inputTokens = tokens, !.totalTokens = tokens]

StageTokens == [plan |-> 1, route |-> 10, task |-> 100, synth |-> 1000]

\* results.map((r) => r.result.usage).filter((u) => !!u): an error result
\* carries no usage
TaskUsages(results) ==
  LET ran == SelectSeq(results, LAMBDA r : r.st = "ok")
  IN [i \in 1..Len(ran) |-> StageUsage(StageTokens.task)]

\* the usages of the routeToAgent tool results of result.steps
routeResultUsages == [i \in 1..routeUsages |-> StageUsage(StageTokens.route)]

\* the usage buildJsonHandler puts into its response, on the branch it has
\* taken: the approved plan, the declared tasks, the direct response
totalUsage ==
  IF kind = "json_approved"
    THEN mergeUsage(TaskUsages(slot) \o <<StageUsage(StageTokens.synth)>>)
  ELSE IF tasks # <<>>
    THEN mergeUsage(<<StageUsage(StageTokens.plan)>> \o TaskUsages(slot)
                      \o <<StageUsage(StageTokens.synth)>>)
  ELSE IF Len(routeResultUsages) > 0
    THEN mergeUsage(<<StageUsage(StageTokens.plan)>> \o routeResultUsages)
  ELSE StageUsage(StageTokens.plan)

\* --------------------------------------------------------- SpecConv
COMPACTION_THRESHOLD == 20
COMPACTION_PRESERVE_RECENT == 4

\* message counts of the stored conversation at the start
InitialSizes == {0, 1, 2, 5, 25}

\* an ordinary message, identified by its content, and the message
\* compactConversation writes for n summarized messages
Message(c) == [c |-> c, tag |-> FALSE, n |-> 0]

SummaryMessage(n) == [c |-> 0, tag |-> TRUE, n |-> n]

\* `a ?? b`
OrElse(a, b) == IF a = Unset THEN b ELSE a

\* mutant: a conversation of exactly preserveRecent messages is compacted
NothingToSummarizeStrict(messages, p) == Len(messages) < p

\* mutant: compaction starts at the threshold
needsCompactionAtLimit(messages, limit) ==
  Len(messages) >= OrElse(limit, COMPACTION_THRESHOLD)

needsCompaction(messages, limit) ==
  Len(messages) > OrElse(limit, COMPACTION_THRESHOLD)

\* `if (messages.length <= preserveRecent)`
NothingToSummarize(messages, p) == Len(messages) <= p

toSummarize(messages, p) == SubSeq(messages, 1, Len(messages) - p)

\* mutant: one message too few
toPreserveShort(messages, p) ==
  SubSeq(messages, Len(messages) - p + 2, Len(messages))

toPreserve(messages, p) ==
  SubSeq(messages, Len(messages) - p + 1, Len(messages))

\* the steps at which a request calls clear or append, and the steps of
\* compactConversation after it has read the conversation
WritePcs == {"c_clear", "c_summary", "c_keep", "l_append", "a_append"}

CompactingPcs == {"c_model", "c_clear", "c_summary", "c_keep"}

\* the store operation a request calls at its step
WriteOf(q) ==
  CASE q.pc = "c_clear"   -> [type |-> "clear", msg |-> Message(0)]
    [] q.pc = "c_summary" -> [type |-> "append", msg |-> SummaryMessage(q.summarized)]
    [] q.pc = "c_keep"    -> [type |-> "append", msg |-> Head(q.keep)]
    [] OTHER              -> [type |-> "append", msg |-> Message(msgSeq + 1)]

\* mutant of clear: the stored messages are kept
AppliedKeeping(conv, op) ==
  [present |-> TRUE,
   messages |-> IF op.type = "clear" THEN conv.messages ELSE Append(conv.messages, op.msg)]

\* clear and append on the stored conversation; both create a missing one
\* (the file store's clear throws instead)
Applied(conv, op) ==
  [present |-> TRUE,
   messages |-> IF op.type = "clear" THEN <<>> ELSE Append(conv.messages, op.msg)]

\* compactConversation returns its result; the loader then reloads
Compacted(q) ==
  IF q.kind = "load" THEN [q EXCEPT !.pc = "l_reget"]
  ELSE [q EXCEPT !.pc = "done", !.out = "compacted"]

\* where a request goes on once its clear or append has resolved
AfterWrite(q) ==
  CASE q.pc = "c_clear"   -> [q EXCEPT !.pc = "c_summary"]
    [] q.pc = "c_summary" -> IF q.keep = <<>> THEN Compacted(q)
                             ELSE [q EXCEPT !.pc = "c_keep"]
    [] q.pc = "c_keep"    -> IF Tail(q.keep) = <<>>
                             THEN Compacted([q EXCEPT !.keep = <<>>])
                             ELSE [q EXCEPT !.keep = Tail(q.keep)]
    [] q.pc = "l_append"  -> [q EXCEPT !.pc = "l_return", !.mine = msgSeq + 1]
    [] OTHER              -> [q EXCEPT !.pc = "done", !.out = "appended",
                                       !.mine = msgSeq + 1]

\* the body of clear / append runs for request r
Commit(r) ==
  LET q    == req[r]
      op   == WriteOf(q)
      conv == store[q.id]
  IN  IF op.type = "clear" /\ storeKind = "file" /\ ~conv.present
      THEN /\ req' = [req EXCEPT ![r] = [q EXCEPT !.pc = "done", !.out = "failed",
                                                  !.sub = FALSE]]
           /\ UNCHANGED <<store, msgSeq, covered>>
      ELSE /\ store' = [store EXCEPT ![q.id] = Applied(conv, op)]
           /\ msgSeq' = IF q.pc \in {"l_append", "a_append"} THEN msgSeq + 1 ELSE msgSeq
           /\ covered' = IF q.pc = "c_summary"
                         THEN covered \cup {q.snap[i].c : i \in 1..q.summarized}
                         ELSE covered
           /\ req' = [x \in Requests |->
                        IF x = r THEN [AfterWrite(q) EXCEPT !.sub = FALSE]
                        ELSE IF req[x].id = q.id /\ req[x].pc \in CompactingPcs
                        THEN [req[x] EXCEPT !.dirty = TRUE]
                        ELSE req[x]]

\* a request arrives: a handler loading the conversation for a new message
\* ("load"), the compact endpoint with the preserveRecent of its body
\* ("compact"), or a handler storing a message ("append")
Begin(r, k, id, po) ==
  /\ req[r].kind = "idle"
  /\ \A x \in Requests : x < r => req[x].kind # "idle"
  /\ k = "compact" \/ po = Unset
  /\ req' = [req EXCEPT ![r] =
               [IdleReq EXCEPT !.kind = k, !.id = id,
                  !.pc = CASE k = "load" -> "l_get"
                           [] k = "compact" -> "c_get"
                           [] OTHER -> "a_append",
                  !.p = OrElse(po, OrElse(preserveRecent, COMPACTION_PRESERVE_RECENT))]]
  /\ UNCHANGED <<storeKind, store, lockQ, lockHeld, msgSeq, covered,
                 compaction, threshold, preserveRecent>>
  /\ UNCHANGED <<cfgVars, delegVars, streamVars, jsonVars, resVars, clsVars, usageVars, listVars, alsVars, registryVars>>

\* `await ctx.storage.conversations.get(id)` resolves, and the code up to
\* the next await runs: the loader's first and second load, and the load
\* of compactConversation
StoreGet(r) ==
  LET q    == req[r]
      conv == store[q.id]
      gone == [q EXCEPT !.pc = "done", !.out = "undefined"]
  IN  /\ q.pc \in {"l_get", "c_get", "l_reget"}
      /\ req' = [req EXCEPT ![r] =
           CASE q.pc = "l_get" ->
                  IF ~conv.present THEN gone
                  ELSE IF compaction = "on" /\ needsCompaction(conv.messages, threshold)
                  THEN [q EXCEPT !.pc = "c_get", !.hist = conv.messages,
                                 !.n0 = Len(conv.messages)]
                  ELSE [q EXCEPT !.pc = "l_append", !.hist = conv.messages,
                                 !.n0 = Len(conv.messages)]
             [] q.pc = "c_get" ->
                  IF ~conv.present
                  THEN IF q.kind = "load" THEN [q EXCEPT !.pc = "l_reget"]
                       ELSE [q EXCEPT !.pc = "done", !.out = "null"]
                  ELSE IF NothingToSummarize(conv.messages, q.p)
                  THEN IF q.kind = "load"
                       THEN [q EXCEPT !.pc = "l_reget", !.snap = conv.messages]
                       ELSE [q EXCEPT !.pc = "done", !.out = "noop",
                                      !.snap = conv.messages]
                  ELSE [q EXCEPT !.pc = "c_model", !.snap = conv.messages,
                                 !.keep = toPreserve(conv.messages, q.p),
                                 !.summarized = Len(toSummarize(conv.messages, q.p))]
             [] OTHER ->
                  IF ~conv.present THEN gone
                  ELSE [q EXCEPT !.pc = "l_append", !.hist = conv.messages]]
      /\ UNCHANGED <<storeKind, store, lockQ, lockHeld, msgSeq, covered,
                     compaction, threshold, preserveRecent>>
      /\ UNCHANGED <<cfgVars, delegVars, streamVars, jsonVars, resVars, clsVars, usageVars, listVars, alsVars, registryVars>>

\* the summarization call (withResilience around generateText) returns
SummaryReturns(r) ==
  /\ req[r].pc = "c_model"
  /\ req' = [req EXCEPT ![r].pc = "c_clear", ![r].calls = @ + 1]
  /\ UNCHANGED <<storeKind, store, lockQ, lockHeld, msgSeq, covered,
                 compaction, threshold, preserveRecent>>
  /\ UNCHANGED <<cfgVars, delegVars, streamVars, jsonVars, resVars, clsVars, usageVars, listVars, alsVars, registryVars>>

\* the summarization call throws: compactConversation and its caller reject
SummaryFails(r) ==
  /\ req[r].pc = "c_model"
  /\ req' = [req EXCEPT ![r].pc = "done", ![r].out = "failed", ![r].calls = @ + 1]
  /\ UNCHANGED <<storeKind, store, lockQ, lockHeld, msgSeq, covered,
                 compaction, threshold, preserveRecent>>
  /\ UNCHANGED <<cfgVars, delegVars, streamVars, jsonVars, resVars, clsVars, usageVars, listVars, alsVars, registryVars>>

\* a request calls clear or append.  The memory store runs the body at
\* once; the file store chains it on the store's one `lock` promise
StoreWrite(r) ==
  /\ req[r].pc \in WritePcs
  /\ ~req[r].sub
  /\ IF storeKind = "file"
     THEN /\ lockQ' = Append(lockQ, r)
          /\ req' = [req EXCEPT ![r].sub = TRUE]
          /\ UNCHANGED <<store, msgSeq, covered>>
     ELSE /\ Commit(r)
          /\ UNCHANGED lockQ
  /\ UNCHANGED <<storeKind, lockHeld, compaction, threshold, preserveRecent>>
  /\ UNCHANGED <<cfgVars, delegVars, streamVars, jsonVars, resVars, clsVars, usageVars, listVars, alsVars, registryVars>>

\* withLock: the previous link of the chain has settled and fn() is called
LockedOpStarts ==
  /\ lockQ # <<>>
  /\ ~lockHeld
  /\ lockHeld' = TRUE
  /\ UNCHANGED <<storeKind, store, lockQ, msgSeq, covered, compaction, threshold,
                 preserveRecent, req>>
  /\ UNCHANGED <<cfgVars, delegVars, streamVars, jsonVars, resVars, clsVars, usageVars, listVars, alsVars, registryVars>>

\* mutant of withLock: without `.catch(() => {})` the link of a rejected
\* fn() rejects, and no later link runs
LinkSettlesOnSuccess(rejected) == ~rejected

\* withLock: the link of the chain resolves whether fn() fulfilled or
\* rejected (`.catch(() => {})`)
LinkSettles(rejected) == TRUE

\* clear on a conversation the file store does not hold throws
ClearThrows(r) ==
  WriteOf(req[r]).type = "clear" /\ ~store[req[r].id].present

\* withLock: fn() settles, its caller is answered and the next link may run
LockedOpFinishes ==
  /\ lockHeld
  /\ req[Head(lockQ)].sub
  /\ Commit(Head(lockQ))
  /\ lockQ' = IF LinkSettles(ClearThrows(Head(lockQ))) THEN Tail(lockQ) ELSE lockQ
  /\ lockHeld' = ~LinkSettles(ClearThrows(Head(lockQ)))
  /\ UNCHANGED <<storeKind, compaction, threshold, preserveRecent>>
  /\ UNCHANGED <<cfgVars, delegVars, streamVars, jsonVars, resVars, clsVars, usageVars, listVars, alsVars, registryVars>>

\* withLock: fn() rejects because the file system fails it (mkdir, readFile
\* or writeFile rejects): the file is left as it was, the caller of the
\* operation is rejected
LockedOpFails ==
  /\ lockHeld
  /\ req[Head(lockQ)].sub
  /\ req' = [req EXCEPT ![Head(lockQ)] =
               [@ EXCEPT !.pc = "done", !.out = "failed", !.sub = FALSE]]
  /\ lockQ' = IF LinkSettles(TRUE) THEN Tail(lockQ) ELSE lockQ
  /\ lockHeld' = ~LinkSettles(TRUE)
  /\ UNCHANGED <<store, msgSeq, covered>>
  /\ UNCHANGED <<storeKind, compaction, threshold, preserveRecent>>
  /\ UNCHANGED <<cfgVars, delegVars, streamVars, jsonVars, resVars, clsVars, usageVars, listVars, alsVars, registryVars>>

\* loadConversationWithCompaction returns the loaded messages and the new
\* one.  The memory store's get hands out the stored object itself, which
\* the append has pushed onto; the file store's get parses a copy
LoadReturns(r) ==
  LET q == req[r]
      messages == IF storeKind = "memory" THEN store[q.id].messages ELSE q.hist
  IN  /\ q.pc = "l_return"
      /\ req' = [req EXCEPT ![r] = [q EXCEPT !.pc = "done", !.out = "loaded",
                                             !.ret = Append(messages, Message(q.mine))]]
      /\ UNCHANGED <<storeKind, store, lockQ, lockHeld, msgSeq, covered,
                     compaction, threshold, preserveRecent>>
      /\ UNCHANGED <<cfgVars, delegVars, streamVars, jsonVars, resVars, clsVars, usageVars, listVars, alsVars, registryVars>>

InitConv ==
  /\ CoreIdle
  /\ UsageIdle
  /\ ListIdle
  /\ AlsIdle
  /\ RegistryIdle
  /\ storeKind \in {"memory", "file"}
  /\ \E size \in InitialSizes :
       /\ store = [id \in ConvIds |->
                     IF id = "A"
                     THEN [present |-> TRUE, messages |-> [i \in 1..size |-> Message(i)]]
                     ELSE Absent]
       /\ msgSeq = size
  /\ lockQ = <<>>
  /\ lockHeld = FALSE
  /\ covered = {}
  /\ compaction \in {"none", "off", "on"}
  /\ threshold \in {Unset, 2}
  /\ preserveRecent \in {Unset, 1}
  /\ req = [r \in Requests |-> IdleReq]

NextConv ==
  \/ \E r \in Requests, k \in {"load", "compact", "append"}, id \in ConvIds,
        po \in {Unset, 0, 2} : Begin(r, k, id, po)
  \/ \E r \in Requests : StoreGet(r)
  \/ \E r \in Requests : SummaryReturns(r)
  \/ \E r \in Requests : SummaryFails(r)
  \/ \E r \in Requests : StoreWrite(r)
  \/ LockedOpStarts
  \/ LockedOpFinishes
  \/ LockedOpFails
  \/ \E r \in Requests : LoadReturns(r)

SpecConv == InitConv /\ [][NextConv]_vars

\* --------------------------------------------------------- SpecList
MaxFiles == 3

\* what a persisted file can hold: a conversation record ("valid"); text
\* that is not JSON ("garbage"); the JSON null ("null"); a JSON number or
\* string ("scalar"); a JSON object without messages ("object"); a JSON
\* object whose messages is a number ("nolength")
FileKinds == {"valid", "garbage", "null", "scalar", "object", "nolength"}

\* JSON.parse(raw) throws
ParseThrows(content) == content = "garbage"

\* `{ id: conv.id, messageCount: conv.messages.length, ... }` throws a
\* TypeError: conv is null, or conv.messages is undefined
SummaryThrows(content) == content \in {"null", "scalar", "object"}

\* `if (conv)` of list: readConversation answers null for text that does
\* not parse, and the parsed null is falsy like it
Falsy(content) == ParseThrows(content) \/ content = "null"

\* a failure on the file is caught and the file skipped: listDir wraps the
\* read, the parse and the push in one try; list catches the parse only
\* and tests the result
Caught(impl, content) ==
  IF impl = "listDir" THEN ParseThrows(content) \/ SummaryThrows(content)
  ELSE Falsy(content)

\* one turn of the loop over the directory entries
ListFile ==
  LET content == dirFiles[listPos + 1]
  IN  /\ listOut = "running"
      /\ listPos < Len(dirFiles)
      /\ listPos' = listPos + 1
      /\ IF Caught(listImpl, content)
         THEN UNCHANGED <<summaries, listOut>>
         ELSE IF ParseThrows(content) \/ SummaryThrows(content)
         THEN listOut' = "threw" /\ UNCHANGED summaries
         ELSE summaries' = Append(summaries, content) /\ UNCHANGED listOut
      /\ UNCHANGED <<listImpl, dirFiles>>
      /\ UNCHANGED <<cfgVars, delegVars, streamVars, jsonVars, resVars, clsVars,
                     usageVars, convVars, alsVars, registryVars>>

\* `return summaries`
ListReturns ==
  /\ listOut = "running"
  /\ listPos = Len(dirFiles)
  /\ listOut' = "returned"
  /\ UNCHANGED <<listImpl, dirFiles, listPos, summaries>>
  /\ UNCHANGED <<cfgVars, delegVars, streamVars, jsonVars, resVars, clsVars,
                 usageVars, convVars, alsVars, registryVars>>

InitList ==
  /\ CoreIdle
  /\ UsageIdle
  /\ ConvIdle
  /\ AlsIdle
  /\ RegistryIdle
  /\ listImpl \in {"listDir", "list"}
  /\ dirFiles \in UNION {[1..n -> FileKinds] : n \in 0..MaxFiles}
  /\ listPos = 0
  /\ summaries = <<>>
  /\ listOut = "running"

NextList == ListFile \/ ListReturns

SpecList == InitList /\ [][NextList]_vars

\* ---------------------------------------------------------- SpecAls
MaxResumes == 2

\* the context the request of a task runs under: buildSseHandler's delCtx
\* with the signal of that request
RequestCtx(f) == DelCtx(RootCtx, IF f = "u1" THEN "signal2" ELSE "signal")

\* the agent a task delegates to
AgentOf(f) == IF f = "t2" THEN "g" ELSE "b"

\* mutant: a resumed continuation sees the store of whatever ran last
RestoreStale(captured, stale) == stale

\* AsyncLocalStorage: a continuation resumes with the store that was
\* current when it was created
Restore(captured, stale) == captured

\* executeTask is called from the request's handler: it reads the store,
\* derives childCtx and calls delegationStore.run(childCtx, ...), inside
\* which runAgent reads the store and suspends on its model call; run
\* returns the pending promise and executeTask suspends on it in turn
TaskStarts(f) ==
  LET parentCtx == Restore(RequestCtx(f), current)
      childCtx  == ChildCtx(parentCtx, AgentOf(f))
  IN  /\ flow[f].pc = "new"
      /\ flow' = [flow EXCEPT ![f] = [pc |-> "running", parent |-> parentCtx,
                                      child |-> childCtx, seenIn |-> <<childCtx>>,
                                      seenOut |-> <<>>]]
      /\ current' = parentCtx
      /\ UNCHANGED <<cfgVars, delegVars, streamVars, jsonVars, resVars, clsVars,
                     usageVars, convVars, listVars, registryVars>>

\* an await inside the run resolves: the agent's code goes on, reads the
\* store, and suspends again or returns
AgentResumes(f, returns) ==
  /\ flow[f].pc = "running"
  /\ returns \/ Len(flow[f].seenIn) <= MaxResumes
  /\ current' = Restore(flow[f].child, current)
  /\ flow' = [flow EXCEPT ![f].seenIn = Append(@, current'),
                          ![f].pc = IF returns THEN "returning" ELSE "running"]
  /\ UNCHANGED <<cfgVars, delegVars, streamVars, jsonVars, resVars, clsVars,
                 usageVars, convVars, listVars, registryVars>>

\* `await delegationStore.run(...)` resolves: executeTask goes on after
\* the run and reads the store
RunReturns(f) ==
  /\ flow[f].pc = "returning"
  /\ current' = Restore(flow[f].parent, current)
  /\ flow' = [flow EXCEPT ![f].seenOut = Append(@, current'), ![f].pc = "done"]
  /\ UNCHANGED <<cfgVars, delegVars, streamVars, jsonVars, resVars, clsVars,
                 usageVars, convVars, listVars, registryVars>>

InitAls ==
  /\ CoreIdle
  /\ UsageIdle
  /\ ConvIdle
  /\ ListIdle
  /\ AlsIdle
  /\ RegistryIdle

NextAls ==
  \/ \E f \in Flows : TaskStarts(f)
  \/ \E f \in Flows, returns \in BOOLEAN : AgentResumes(f, returns)
  \/ \E f \in Flows : RunReturns(f)

SpecAls == InitAls /\ [][NextAls]_vars

\* ----------------------------------------------------- SpecRegistry
\* cancelRequest(conversationId) called for the reason `cause` by request
\* `caller` ("-": the cancel endpoint): the handlers after
\* controller.abort() on the controller stored under the id, if any
AbortStored(id, cause, caller) ==
  LET o == controllers[id]
  IN IF o = "none" THEN handlers
     ELSE [handlers EXCEPT
             ![o].signal = "aborted",
             ![o].by = IF handlers[o].signal = "aborted" THEN handlers[o].by
                       ELSE IF cause = "disconnect" /\ caller # o THEN "foreign"
                       ELSE cause]

\* activeRequests.delete(conversationId)
Deleted(id) == [controllers EXCEPT ![id] = "none"]

\* the handler of request r starts: registerRequest(convId), which cancels
\* the request registered under the id and stores a new controller, then
\* the abort listener on the signal of the client's request
RegisterRequest(r, id) ==
  /\ handlers[r].pc = "new"
  /\ handlers' = [AbortStored(id, "superseded", r) EXCEPT
                    ![r] = [pc |-> "running", id |-> id, signal |-> "live",
                            by |-> "none", conn |-> TRUE]]
  /\ controllers' = [controllers EXCEPT ![id] = r]
  /\ UNCHANGED <<cfgVars, delegVars, streamVars, jsonVars, resVars, clsVars,
                 usageVars, convVars, listVars, alsVars>>

\* POST /:agentName/cancel: cancelRequest(conversationId)
CancelRoute(id) ==
  /\ controllers[id] # "none"
  /\ handlers' = AbortStored(id, "cancel", "-")
  /\ controllers' = Deleted(id)
  /\ UNCHANGED <<cfgVars, delegVars, streamVars, jsonVars, resVars, clsVars,
                 usageVars, convVars, listVars, alsVars>>

\* the client of request r disconnects while its handler runs: the
\* listener calls cancelRequest(convId)
ClientAborts(r) ==
  /\ handlers[r].pc = "running"
  /\ handlers[r].conn
  /\ handlers' = [AbortStored(handlers[r].id, "disconnect", r) EXCEPT ![r].conn = FALSE]
  /\ controllers' = Deleted(handlers[r].id)
  /\ UNCHANGED <<cfgVars, delegVars, streamVars, jsonVars, resVars, clsVars,
                 usageVars, convVars, listVars, alsVars>>

\* the handler of request r leaves its try block, after its work or after
\* the abort of its signal: finally { unregisterRequest(convId) }
HandlerEnds(r) ==
  /\ handlers[r].pc = "running"
  /\ handlers' = [handlers EXCEPT ![r].pc = "done"]
  /\ controllers' = Deleted(handlers[r].id)
  /\ UNCHANGED <<cfgVars, delegVars, streamVars, jsonVars, resVars, clsVars,
                 usageVars, convVars, listVars, alsVars>>

InitRegistry ==
  /\ CoreIdle
  /\ RestIdle

NextRegistry ==
  \/ \E r \in StreamRequests, id \in StreamConvIds : RegisterRequest(r, id)
  \/ \E id \in StreamConvIds : CancelRoute(id)
  \/ \E r \in StreamRequests : ClientAborts(r)
  \/ \E r \in StreamRequests : HandlerEnds(r)

SpecRegistry == InitRegistry /\ [][NextRegistry]_vars

\* ---------------------------------------------------- claims (stream)
TerminalsIn(s) == {i \in 1..Len(s) : s[i].name \in Terminal}

CancelledIn(s) == {i \in 1..Len(s) : s[i].name = "cancelled"}

\* C1: a streaming request cancelled before its terminal event delivers
\* exactly one cancelled event to the client and nothing after it.
C1_ExactlyOneCancelled ==
  (pc = "closed" /\ cancelStage # "none")
     => /\ Cardinality(CancelledIn(delivered)) = 1
        /\ delivered[Len(delivered)].name = "cancelled"

\* C2: a stream never closes before a terminal event (done, cancelled or
\* error) has been delivered to the client.
C2_TerminalDelivered ==
  stream = "closed" => TerminalsIn(delivered) # {}

\* C3: when the token is aborted while the planning call, a delegated task,
\* a backoff sleep or synthesis is in flight, the terminal event the handler
\* writes is cancelled, never error and never done.
C3_AbortYieldsCancelled ==
  cancelStage = "inflight"
     => \A i \in TerminalsIn(written) : written[i].name = "cancelled"

\* C4: an orchestrator streaming request writes exactly one terminal event
\* and it is the last event written: nothing is written or queued behind
\* it, and on success it is done.
C4_OneTerminalLast ==
  kind \in {"orch", "approved"}
     => /\ \A i \in TerminalsIn(written) : i = Len(written) /\ chainQ = <<>>
        /\ pc = "closed"
             => /\ Cardinality(TerminalsIn(written)) = 1
                /\ chainQ = <<>>
                /\ (err = "none" /\ ~aborted) => written[Len(written)].name = "done"

C4_Witness ==
  /\ kind = "orch"
  /\ pc = "closed"
  /\ written[Len(written)].name = "done"
  /\ \E i \in 1..Len(written) : written[i].src = 2 /\ written[i].name = "delegate:end"
  /\ \E i \in 1..Len(written) : written[i].name = "agent:plan"

\* C5: once a request that registered a cancellation token has finished, by
\* any path, the request registry holds no entry for its conversation id.
C5_RegistryCleaned ==
  pc \in {"closed", "rejected"} => ConvId \notin activeRequests

\* C6: the events of a connection carry the sequence ids 0, 1, 2, ... in
\* the order their writes were issued, also when concurrently running tasks
\* emit bus events; no id is shared and delivery follows id order (each
\* event's id and issue number exceed those of the event before it).
C6_SequenceIdsAscending ==
  /\ \A i \in 1..Len(written) : written[i].id = i - 1
  /\ \A i \in 1..(Len(written) - 1) : written[i].seq < written[i + 1].seq
  /\ \A i \in 1..(Len(delivered) - 1) :
       /\ delivered[i].id < delivered[i + 1].id
       /\ delivered[i].seq < delivered[i + 1].seq

C6_Witness ==
  /\ pc = "closed"
  /\ \E i, j \in 1..Len(delivered) :
       /\ i < j
       /\ delivered[i].src = 2 /\ delivered[i].name = "delegate:end"
       /\ delivered[j].src = 1 /\ delivered[j].name = "delegate:end"
  /\ delivered[Len(delivered)].name = "done"

\* the request executed its tasks: slot holds the executeTask calls of
\* executeTasksSettled
TasksExecuted == DOMAIN slot # {} /\ 0 \notin DOMAIN slot

\* C12: parallel tasks of which some fail: every declared task has exactly
\* one result, in declaration order; the handler leaves the join only when
\* every task has settled, failed ones as error results, reaches synthesis
\* with no error recorded, and without cancellation or a later failure the
\* request ends with done after the synthesis.
C12_FailedTaskIsAResult ==
  TasksExecuted
     => /\ DOMAIN slot = 1..Len(tasks)
        /\ \A t \in DOMAIN slot : slot[t].agent = tasks[t]
        /\ pc # "join" => \A t \in DOMAIN slot : slot[t].st \in {"ok", "err"}
        /\ pc \in {"join", "synth_status", "think"} => err = "none"
        /\ (pc = "closed" /\ ~aborted /\ err = "none")
              => /\ written[Len(written)].name = "done"
                 /\ \E i \in 1..Len(written) : written[i].name = "agent:think"

C12_Witness ==
  /\ kind = "approved"
  /\ pc = "closed"
  /\ tasks = <<"g", "b">>
  /\ slot[1].st = "err"
  /\ slot[2].st = "ok"
  /\ ~aborted
  /\ written[Len(written)].name = "done"

\* C14: a request with planMode set executes no task: it ends with the
\* plan awaiting approval.
C14_PlanModeExecutesNothing ==
  (kind = "orch" /\ planMode) => ~TasksExecuted

\* C13: in non-autonomous mode a request whose planning declares tasks
\* executes none of them: it answers with the plan awaiting approval.
C13_NonAutonomousExecutesNothing ==
  (kind \in {"orch", "json"} /\ ~autonomous) => ~TasksExecuted

\* C15: in non-autonomous mode, when a routed sub-call raised clarification
\* items, the request executes no task and does not answer with a
\* synthesized or direct response: it ends awaiting clarification.
C15_ClarificationHalts ==
  (kind \in {"orch", "json"} /\ ~autonomous /\ routeItems)
     => /\ ~TasksExecuted
        /\ response \notin {"synthesized", "direct"}

\* the error carries the status st: as its status / statusCode property
\* or as a number in its message
Carries(e, st) ==
  \/ e.status = st
  \/ \E i \in 1..Len(e.msg) :
       e.msg[i] \in DOMAIN ThreeDigitWords /\ ThreeDigitWords[e.msg[i]] = st

\* C17: isRetryableError answers false for every error that carries one of
\* the statuses 400, 401, 403, 404, 422, in its status property or in its
\* message, whatever else the message holds.
C17_NonRetryableStatusIsFinal ==
  (verdict # "unset" /\ \E st \in NON_RETRYABLE_STATUS_CODES : Carries(thrownValue, st))
     => verdict = "final"

\* C32: the usage of the response of an orchestrator request holds the
\* tokens of every stage that ran: the planning call, every routed call
\* and every executed task that returned a usage, and the synthesis call.
C32_UsageCoversEveryStage ==
  pc = "responded" =>
    totalUsage.totalTokens =
        (IF kind = "json" THEN StageTokens.plan ELSE 0)
      + StageTokens.route * routeUsages
      + StageTokens.task * Cardinality({t \in DOMAIN slot : t # 0 /\ slot[t].st = "ok"})
      + (IF response = "synthesized" THEN StageTokens.synth ELSE 0)

\* C35: every task a request runs is run on an agent of the `agents` list
\* of the orchestrator, whatever the request body holds.
C35_DelegatesWithinAgentsList ==
  \A t \in DOMAIN slot : slot[t].ran => slot[t].agent \in allowedAgents

\* ------------------------------------------------- claims (resilience)
AlwaysFailsWith(e) ==
  /\ calls # <<>>
  /\ \A i \in 1..Len(calls) : calls[i].model = "default" => calls[i].result = e

\* C16: an operation that always fails with status 429 is invoked exactly
\* maxRetries + 1 times, with maxRetries backoff waits, before the fallback
\* hook is consulted or the error is given up on, and never fewer unless the
\* request is aborted; an operation that fails with status 401 is invoked
\* once and its error is thrown at once, with no wait.
C16_RetryCount ==
  /\ (AlwaysFailsWith(E429) /\ resPc \in {"fallback", "fbcall"})
       => Len(calls) = maxRetries + 1 /\ sleeps = maxRetries
  /\ (AlwaysFailsWith(E429) /\ ~resAborted /\ resPc = "thrown" /\ onFallback = "none")
       => Len(calls) = maxRetries + 1 /\ sleeps = maxRetries /\ thrown = E429
  /\ (AlwaysFailsWith(E429) /\ ~resAborted /\ Len(calls) < maxRetries + 1)
       => resPc \in {"call", "sleep"}
  /\ AlwaysFailsWith(E401)
       => Len(calls) = 1 /\ sleeps = 0 /\ resPc = "thrown" /\ thrown = E401

C16_Witness ==
  /\ AlwaysFailsWith(E429)
  /\ maxRetries > 0
  /\ resPc = "fallback"
  /\ Len(calls) = maxRetries + 1

\* C18: the operation is invoked with the substitute model only after
\* maxRetries + 1 failed attempts, only when the hook returned one, and only
\* once: that invocation is the last, and its failure is the error thrown.
\* Without a hook, or with a hook that returns nothing, the error thrown is
\* the last error.  The operation is invoked at most maxRetries + 2 times.
C18_FallbackOnce ==
  /\ Len(calls) <= maxRetries + 2
  /\ \A i \in 1..Len(calls) :
       calls[i].model = "fallback" =>
         /\ onFallback = "substitute"
         /\ i = Len(calls)
         /\ i = maxRetries + 2
         /\ IF calls[i].result.isError
            THEN resPc = "thrown" /\ thrown = calls[i].result
            ELSE resPc = "returned"
  /\ resPc = "fbcall" => onFallback = "substitute" /\ Len(calls) = maxRetries + 1
  /\ (resPc \in {"returned", "thrown"} /\ onFallback = "substitute" /\ ~resAborted
        /\ Len(calls) = maxRetries + 1)
       => ~isRetryableError(calls[Len(calls)].result)
  /\ (resPc = "thrown" /\ onFallback \in {"none", "declines"} /\ ~abortedInSleep)
       => thrown = lastError

C18_Witness ==
  /\ resPc = "thrown"
  /\ maxRetries > 0
  /\ Len(calls) = maxRetries + 2
  /\ calls[Len(calls)] = Call("fallback", E429)
  /\ thrown = E429

\* C19: when the signal is aborted during a backoff wait, withResilience
\* has thrown an AbortError and the attempt the wait preceded is not made:
\* the operation was invoked once per wait begun and never again.
C19_AbortEndsSleep ==
  abortedInSleep =>
    /\ resPc = "thrown"
    /\ thrown.name = "AbortError"
    /\ Len(calls) = sleeps

C19_Witness ==
  /\ abortedInSleep
  /\ resPc = "thrown"
  /\ sleeps > 0
  /\ Len(calls) = sleeps

\* C36: once the signal is aborted withResilience never invokes fn again:
\* no step taken with the signal aborted starts a call, neither an attempt
\* of the loop nor the call with the fallback model.
C36_NoCallAfterAbort ==
  [][(resAborted /\ resPc' \in {"call", "fbcall"}) => resPc' = resPc]_vars

\* ------------------------------------------------------ claims (usage)
RECURSIVE SumOf(_, _)
SumOf(us, field) ==
  IF us = <<>> THEN 0 ELSE us[1][field] + SumOf(Tail(us), field)

RECURSIVE MaxDurationOf(_)
MaxDurationOf(us) ==
  IF us = <<>> THEN 0
  ELSE LET rest == MaxDurationOf(Tail(us))
       IN  IF us[1].durationMs > rest THEN us[1].durationMs ELSE rest

CostsOf(us) == SelectSeq(us, LAMBDA u : u.cost # NullCost)

\* C22 as stated: merging the same records in any order and grouping gives
\* the same result, token fields being the sums and durationMs the maximum.
C22_OrderAndGroupingIrrelevant ==
  usePc = "out" =>
    /\ remerged = merged
    /\ \A f \in {"inputTokens", "outputTokens", "totalTokens"} :
         merged[f] = SumOf(usages, f)
    /\ merged.durationMs = MaxDurationOf(usages)

\* C22 amended: in any order and grouping the token fields are the sums
\* of the inputs' fields, durationMs is the maximum of the inputs'
\* durations and the cost is null for the same inputs; the cost itself is
\* the same whenever the exact sum of the costs needs no rounding.
C22_OrderIrrelevantUpToRounding ==
  usePc = "out" =>
    /\ \A f \in {"inputTokens", "outputTokens", "totalTokens"} :
         merged[f] = SumOf(usages, f) /\ remerged[f] = merged[f]
    /\ merged.durationMs = MaxDurationOf(usages)
    /\ remerged.durationMs = merged.durationMs
    /\ (remerged.cost = NullCost) = (merged.cost = NullCost)
    /\ SumOf(CostsOf(usages), "cost") < 2^MantissaBits => remerged.cost = merged.cost

C22_Witness ==
  /\ usePc = "out"
  /\ Len(usages) = MaxUsages
  /\ usages[1] # usages[2]
  /\ usages[1].durationMs < usages[2].durationMs
  /\ SumOf(CostsOf(usages), "cost") > 1
  /\ SumOf(CostsOf(usages), "cost") < 2^MantissaBits
  /\ remerged = merged

\* C23: the merged cost is null exactly when every input cost is null, and
\* is otherwise the sum, taken in argument order, of the non-null costs.
C23_NullCostSkipped ==
  usePc = "out" =>
    /\ (merged.cost = NullCost) = (CostsOf(usages) = <<>>)
    /\ merged.cost = mergeUsage(CostsOf(usages)).cost
    /\ SumOf(CostsOf(usages), "cost") < 2^MantissaBits /\ CostsOf(usages) # <<>>
         => merged.cost = SumOf(CostsOf(usages), "cost")

C23_Witness ==
  /\ usePc = "out"
  /\ Len(usages) = MaxUsages
  /\ usages[1].cost = NullCost
  /\ usages[2].cost # NullCost
  /\ usages[3].cost = NullCost
  /\ merged.cost = usages[2].cost

\* ----------------------------------------------- claims (conversations)
\* no other request works on the conversation of request r
Alone(r) ==
  \A x \in Requests \ {r} : req[x].kind = "idle" \/ req[x].id # req[r].id

\* C24: a compaction of N > preserveRecent messages that ran undisturbed
\* leaves exactly 1 + preserveRecent stored messages: the summary message,
\* then the last preserveRecent messages it had read, in their order.
C24_SummaryPlusTail ==
  \A r \in Requests :
    LET q  == req[r]
        ms == store[q.id].messages
        N  == Len(q.snap)
    IN  (q.kind = "compact" /\ q.out = "compacted" /\ Alone(r)) =>
          /\ N > q.p
          /\ Len(ms) = 1 + q.p
          /\ ms[1] = SummaryMessage(N - q.p)
          /\ \A i \in 1..q.p : ms[1 + i] = q.snap[N - q.p + i]

C24_Witness ==
  \E r \in Requests :
    /\ req[r].kind = "compact" /\ req[r].out = "compacted" /\ Alone(r)
    /\ Len(req[r].snap) = 5
    /\ req[r].p = 2
    /\ Len(store[req[r].id].messages) = 3

\* C25: a compaction that read N <= preserveRecent messages makes no model
\* call, writes nothing and reports summarizedCount 0; compaction goes on
\* to the model call only with N > preserveRecent.
C25_ShortConversationUntouched ==
  \A r \in Requests :
    LET q == req[r]
    IN  /\ q.pc \in CompactingPcs => Len(q.snap) > q.p
        /\ q.out = "noop" =>
             /\ Len(q.snap) <= q.p
             /\ q.calls = 0 /\ q.summarized = 0
             /\ Alone(r) => store[q.id].messages = q.snap

C25_Witness ==
  \E r \in Requests :
    /\ req[r].out = "noop" /\ Alone(r)
    /\ Len(req[r].snap) = req[r].p
    /\ req[r].p > 0
    /\ store[req[r].id].messages = req[r].snap

\* C26: a compaction asked for through the compact endpoint on a
\* conversation that does not exceed the threshold summarizes nothing and
\* makes no model call.
C26_BelowThresholdIsNoOp ==
  \A r \in Requests :
    LET q == req[r]
    IN  (q.kind = "compact" /\ q.pc \in CompactingPcs \cup {"done"}
           /\ Len(q.snap) <= OrElse(threshold, COMPACTION_THRESHOLD))
          => q.summarized = 0 /\ q.calls = 0

\* the loader of request r is past its compaction step and has not failed
Loaded(r) ==
  /\ req[r].kind = "load"
  /\ req[r].pc \in {"l_reget", "l_append", "l_return", "done"}
  /\ req[r].out \in {"none", "loaded"}

NoRequestRunning == \A r \in Requests : req[r].pc \in {"idle", "done"}

Plain(messages) == SelectSeq(messages, LAMBDA m : ~m.tag)

\* C28: once the requests have finished, every message ever appended is
\* stored once or stands behind a summary, and the stored messages are in
\* the order in which they were appended.
C28_AppendsSurviveCompaction ==
  NoRequestRunning =>
    /\ \A id \in ConvIds :
         \A i \in 1..(Len(Plain(store[id].messages)) - 1) :
           Plain(store[id].messages)[i].c < Plain(store[id].messages)[i + 1].c
    /\ \A c \in 1..msgSeq :
         \/ c \in covered
         \/ \E id \in ConvIds : \E i \in 1..Len(store[id].messages) :
              store[id].messages[i].c = c

\* C29: while an operation of the file store is in progress, only
\* operations on the same conversation id wait for it.
C29_WaitsOnlyForSameConversation ==
  lockHeld =>
    \A i \in 2..Len(lockQ) : req[lockQ[i]].id = req[lockQ[1]].id

\* C37: a load that ran undisturbed returns the messages the store held
\* when it read them, followed by exactly one copy of the new user
\* message, with the memory store as with the file store.
C37_HistoryThenOneNewMessage ==
  \A r \in Requests :
    (req[r].kind = "load" /\ req[r].out = "loaded" /\ Alone(r)) =>
      req[r].ret = Append(req[r].hist, Message(req[r].mine))

\* C38: a compaction is all-or-nothing: when a call of the compact
\* endpoint that ran undisturbed fails, in its summarization call or in a
\* store write after it, the stored conversation still holds the messages
\* the call had read.
C38_FailedCompactionKeepsMessages ==
  \A r \in Requests :
    LET q == req[r]
    IN  (q.kind = "compact" /\ q.out = "failed" /\ q.calls > 0 /\ Alone(r)) =>
          store[q.id].messages = q.snap

\* no write of another request landed while a compaction was under way:
\* the operations on each conversation ran one after the other
Sequential == \A r \in Requests : ~req[r].dirty

\* C39: after appends and compactions run one after the other, at most
\* one stored message of a conversation carries the compaction tag, and
\* it is the first message.
C39_OneSummaryFirst ==
  Sequential =>
    \A id \in ConvIds :
      \A i \in 1..Len(store[id].messages) : store[id].messages[i].tag => i = 1

C39_Witness ==
  /\ Sequential
  /\ req[1].kind = "compact" /\ req[1].out = "compacted"
  /\ req[2].kind = "compact" /\ req[2].out = "compacted" /\ req[2].id = req[1].id
  /\ Len(req[2].snap) > 1
  /\ req[2].snap[1].tag
  /\ Len(store[req[2].id].messages) > 1
  /\ store[req[2].id].messages[1].tag

\* C40: the operations chained on the lock of the file store run one at a
\* time in the order of their submission: the queue only grows at its end
\* and shrinks at its head, only the operation at its head ends, and the
\* store changes only when that operation ends.  A failing operation
\* rejects its own caller and leaves every other request as it was, and
\* the lock is never left held: whatever waits in the queue is a pending
\* operation whose turn can come.
C40_LockIsFifoAndSurvivesFailure ==
  /\ [](/\ \A r \in Requests : req[r].sub <=> (\E i \in 1..Len(lockQ) : lockQ[i] = r)
        /\ \A i, j \in 1..Len(lockQ) : lockQ[i] = lockQ[j] => i = j
        /\ lockHeld => lockQ # <<>>)
  /\ [][/\ lockQ' # lockQ =>
             \/ lockQ # <<>> /\ lockQ' = Tail(lockQ) /\ lockHeld /\ ~lockHeld'
             \/ \E r \in Requests : lockQ' = Append(lockQ, r) /\ lockHeld' = lockHeld
        /\ \A r \in Requests :
             (req[r].sub /\ ~req'[r].sub) => (lockHeld /\ lockQ # <<>> /\ r = Head(lockQ))
        /\ (storeKind = "file" /\ store' # store) => (lockHeld /\ ~lockHeld')
        /\ \A r \in Requests :
             (req[r].sub /\ req'[r].out = "failed") =>
                \A x \in Requests \ {r} : req'[x] = req[x]]_vars

C40_Witness ==
  /\ req[1].kind = "append" /\ req[1].out = "failed"
  /\ req[2].kind = "append" /\ req[2].out = "appended" /\ req[2].id = req[1].id
  /\ lockQ = <<>>
  /\ ~lockHeld

\* ----------------------------------------------------- claims (listing)
\* C30: list never throws, and what it returns are the summaries of the
\* well-formed records, every other file being skipped.
C30_ListingSkipsCorrupted ==
  /\ listOut # "threw"
  /\ listOut = "returned"
       => summaries = SelectSeq(dirFiles, LAMBDA content : content = "valid")

C34_RegistrationSurvivesEarlierRequest ==
  \A r \in StreamRequests :
    handlers[r].pc = "running" =>
      /\ handlers[r].by # "foreign"
      /\ handlers[r].signal = "live" => controllers[handlers[r].id] = r

\* ------------------------------------------------- claims (delegation)
\* contexts in which an agent is running
RunningFrames == {i \in 1..Len(stack) : stack[i].pc = "run"}

NoDuplicates(s) == \A i, j \in 1..Len(s) : i # j => s[i] # s[j]

\* C7: in every delegation context in which an agent runs depth equals the
\* length of chain; a delegation attempted at depth >= maxDelegationDepth
\* ends with an error result of the legality checks and no agent runs at a
\* depth greater than maxDelegationDepth.
C7_DepthIsChainLength ==
  /\ \A i \in 1..Len(stack) :
       /\ stack[i].child.depth = Len(stack[i].child.chain)
       /\ stack[i].parent.depth = Len(stack[i].parent.chain)
       /\ stack[i].child.depth <= maxDelegationDepth
  /\ (last.state # "none" /\ last.ctx.depth >= maxDelegationDepth)
        => (last.state = "resolved" /\ last.msg \in LegalityErrors)

C7_Witness ==
  /\ Len(stack) = 2
  /\ stack[2].pc = "run"
  /\ stack[2].child.depth = 2
  /\ last.state = "resolved"
  /\ last.msg = "depth"
  /\ last.ctx.depth = maxDelegationDepth

\* C8: a delegation whose target is the immediate caller or appears
\* anywhere in the current chain ends with an error result of the legality
\* checks, whatever maxDelegationDepth is, and the chain of a running agent
\* never holds a name twice.
C8_NoCycles ==
  /\ \A i \in 1..Len(stack) : NoDuplicates(stack[i].child.chain)
  /\ (last.state # "none" /\ ChainIncludes(last.ctx.chain, last.agent))
        => (last.state = "resolved" /\ last.msg \in LegalityErrors)

C8_Witness ==
  /\ last.state = "resolved"
  /\ last.msg = "cycle"
  /\ last.ctx.chain = <<"a", "b">>
  /\ last.agent = "a"
  /\ last.ctx.depth < maxDelegationDepth

\* C9: a delegation whose target is registered as an orchestrator ends with
\* the error result that names the target an orchestrator, whoever the
\* caller is, and an orchestrator is never run as a delegation target.
C9_OrchestratorRejected ==
  /\ \A i \in 1..Len(stack) : ~reg[stack[i].agent].isOrchestrator
  /\ (last.state # "none" /\ reg[last.agent].isOrchestrator)
        => (last.state = "resolved" /\ last.msg = "orchestrator")

C9_Witness ==
  /\ last.agent = "o"
  /\ last.msg = "orchestrator"
  /\ last.ctx.chain = <<"b">>
  /\ Len(stack) = 1

\* C10: executeTask never rejects: whatever fails along the way, the promise
\* resolves to a TaskResult.
C10_NeverRejects ==
  last.state # "rejected"


EventNames(evs) == {evs[i].name : i \in 1..Len(evs)}

\* the events of a call without the texts of their payloads
Untexted(evs) == [i \in 1..Len(evs) |-> BusEv(evs[i].name, evs[i].error)]

\* C11: when the guard of the target answers not-allowed, executeTask
\* resolves to the guard-blocked error result, the agent is never run (no
\* frame of a denied call reaches the agent run, the call emits no
\* agent:start), and the call's last bus event is a delegate:end flagged
\* as an error.
C11_GuardBlocks ==
  /\ \A i \in 1..Len(stack) : stack[i].guard = "denied" => stack[i].pc # "run"
  /\ last.guard = "denied"
       => /\ last.state = "resolved"
          /\ last.msg = "guard blocked"
          /\ ~last.ran
          /\ "agent:start" \notin EventNames(last.events)
          /\ "agent:end" \notin EventNames(last.events)
          /\ Untexted(last.events)[Len(last.events)] = BusEv("delegate:end", TRUE)
          /\ Cardinality({i \in 1..Len(last.events) : last.events[i].name = "delegate:end"}) = 1

C11_Witness ==
  /\ last.guard = "denied"
  /\ last.agent = "a"
  /\ last.ctx.chain = <<"b">>
  /\ Untexted(last.events) =
       <<BusEv("skill:inject", FALSE), BusEv("delegate:start", FALSE),
         BusEv("status", FALSE), BusEv("delegate:end", TRUE)>>

C31_PayloadTextBounded ==
  \A i \in 1..Len(last.events) :
    last.events[i].name \in {"delegate:end", "agent:end"}
      => last.events[i].text <= SUMMARY_LENGTH_LIMIT

Positions(evs, name) == {i \in 1..Len(evs) : evs[i].name = name}

\* C33: in the events of a settled call, every delegate:start is followed
\* by exactly one delegate:end, the agent:start / agent:end pair of a run
\* lies strictly between them, and a call rejected by the legality checks
\* emitted none of these events.
C33_DelegationEventsPaired ==
  last.state # "none" =>
    LET evs == last.events
        ds == Positions(evs, "delegate:start")
        de == Positions(evs, "delegate:end")
        as == Positions(evs, "agent:start")
        ae == Positions(evs, "agent:end")
    IN /\ Cardinality(ds) = Cardinality(de)
       /\ Cardinality(ds) <= 1
       /\ Cardinality(as) = Cardinality(ae)
       /\ \A i \in ds, j \in de : i < j
       /\ \A i \in ds, j \in de, k \in as, l \in ae : i < k /\ k < l /\ l < j
       /\ last.ran = (as # {})
       /\ last.msg \in LegalityErrors => evs = <<>>

====
